---------------------------- MODULE Spec2Model ----------------------------
(***************************************************************************)
(* State-machine model of the TOP-GRAB job portal API: the route handlers  *)
(* over the jobseekers, employers, jobs and applications collections.      *)
(* Every handler is split at its awaited database calls; a database call   *)
(* is one atomic step.  A request slot (proc) holds a handler's locals.    *)
(***************************************************************************)
EXTENDS Integers, Sequences, FiniteSets, TLC

VARIABLES
  users,            \* documents of the jobseekers and employers collections
  appliedJobs,      \* JobSeeker.appliedJobs of every job-seeker document
  docVersion,       \* mongoose version key (__v) of every job-seeker document
  jobs,             \* documents of the jobs collection
  applications,     \* documents of the applications collection
  nextJobId,        \* next fresh _id of the jobs collection
  nextApplicationId,\* next fresh _id of the applications collection
  nextUserId,       \* next fresh _id of the user collections
  now,              \* the clock read by new Date()
  pendingClose,     \* job ids with a fired, not yet applied, status update
  proc,             \* the request slots: locals and response of each handler
  mongo             \* global.mongoose of lib/mongodb and the connections asked for

vars == <<users, appliedJobs, docVersion, jobs, applications, nextJobId,
          nextApplicationId, nextUserId, now, pendingClose, proc, mongo>>

db == <<users, appliedJobs, docVersion, jobs, applications>>

\* cached = global.mongoose = {conn: null, promise: null}.  A promise is named
\* by the number of the mongoose.connect call that made it, 0 is null;
\* settled tells how the promise ended; connects counts the calls of
\* mongoose.connect and calls the calls of dbConnect.
NotConnected ==
  [conn |-> 0, promise |-> 0, settled |-> "pending", connects |-> 0, calls |-> 0]

-----------------------------------------------------------------------------
(* Bounds of the model *)

MaxJobs == 2
MaxApps == 2
MaxUsers == 4
MaxTime == 2

JobIds == 1..MaxJobs
AppIds == 1..MaxApps
UserIds == 1..MaxUsers
Procs == {1, 2}

-----------------------------------------------------------------------------
(* JSON values of a request body, with what JavaScript makes of them *)

\* t: the JSON type; n: the value ToNumber gives; nan: ToNumber gives NaN
JUndefined == [t |-> "undefined", n |-> 0, nan |-> TRUE]
JNull == [t |-> "null", n |-> 0, nan |-> FALSE]
JNum(k) == [t |-> "number", n |-> k, nan |-> FALSE]
JNumStr(k) == [t |-> "string", n |-> k, nan |-> FALSE]
JWord == [t |-> "string", n |-> 0, nan |-> TRUE]
JArr(k) == [t |-> "array", n |-> k, nan |-> FALSE]

\* rating >= 0 && rating <= 5 : a comparison with NaN is false
JsInRange(v, lo, hi) == ~v.nan /\ v.n >= lo /\ v.n <= hi

\* mongoose castNumber: an array fails the cast (CastError)
CastFails(v) == v.t = "array"

\* mongoose castNumber: null stays null, a numeric string becomes its number
CastNumber(v) == IF v.t = "null" THEN JNull ELSE JNum(v.n)

ApplicationStatuses ==
  {"Pending", "Reviewed", "Shortlisted", "Interviewed", "Selected", "Rejected"}

JobStatuses == {"Active", "Closed", "Draft"}

-----------------------------------------------------------------------------
(* Documents *)

\* bcrypt.hash and bcrypt.compare
HashPassword(password) == <<"bcrypt", password>>

\* mutant: every password is taken
VerifyPassword_Mut(password, hash) == TRUE

VerifyPassword(password, hash) == hash = HashPassword(password)

UserDoc(id, role, username, email, password) ==
  [id |-> id, role |-> role, username |-> username, email |-> email,
   passwordHash |-> HashPassword(password), firstName |-> "First",
   lastName |-> "Last", isEmailVerified |-> TRUE,
   emailVerificationToken |-> 0, emailVerificationTokenExpiry |-> 0,
   passwordResetToken |-> 0, passwordResetTokenExpiry |-> 0]

JobSeekers == {u \in users : u.role = "job-seeker"}
Employers == {u \in users : u.role = "employer"}

\* Model.findById: the set holding the document, or the empty set
FindById(coll, id) == {d \in coll : d.id = id}

\* the document of a non-empty find result
TheDoc(found) == CHOOSE d \in found : TRUE

\* coll with document d replaced by e (findByIdAndUpdate, save)
Replace(coll, d, e) == (coll \ {d}) \cup {e}

Range(seq) == {seq[i] : i \in 1..Len(seq)}

-----------------------------------------------------------------------------
(* auth_token cookies and lib/auth verifyToken *)

NoToken == [present |-> FALSE, valid |-> FALSE, uid |-> 0, role |-> "none"]
BadToken == [present |-> TRUE, valid |-> FALSE, uid |-> 0, role |-> "none"]

\* createToken({userId, role, username})
CreateToken(u) == [present |-> TRUE, valid |-> TRUE, uid |-> u.id, role |-> u.role]

\* the cookies a caller can send: none, one that fails jwt.verify, or a
\* token issued to an existing user
Tokens == {NoToken, BadToken} \cup {CreateToken(u) : u \in users}

\* mutant: the verification of the token is left out
AuthCheck_Mut(tok, role) ==
  IF ~tok.present THEN 401
  ELSE IF tok.role # role THEN 403
  ELSE 0

\* the guard every protected route starts with: 0 when the caller passes,
\* else the status code of the refusal
AuthCheck(tok, role) ==
  IF ~tok.present THEN 401
  ELSE IF ~tok.valid THEN 401
  ELSE IF tok.role # role THEN 403
  ELSE 0

-----------------------------------------------------------------------------
(* Text values of a request body, with what JavaScript makes of them *)

\* t: the JSON type; s: the text
Absent == [t |-> "undefined", s |-> ""]
Str(s) == [t |-> "string", s |-> s]
NotAString == [t |-> "number", s |-> "7"]

\* !value is false
Truthy(v) == v.t # "undefined" /\ v.s # ""

IsString(v) == v.t = "string"

\* String.prototype.toLowerCase on the texts of the model
ToLowerCase(s) ==
  CASE s = "Alice" -> "alice"
    [] s = "Alice@Mail " -> "alice@mail "
    [] s = "Zed" -> "zed"
    [] s = "Zed " -> "zed "
    [] s = "Bob" -> "bob"
    [] OTHER -> s

\* String.prototype.trim on the texts of the model
Trim(s) ==
  CASE s = "Alice@Mail " -> "Alice@Mail"
    [] s = "alice@mail " -> "alice@mail"
    [] s = "Zed " -> "Zed"
    [] s = "zed " -> "zed"
    [] s = " " -> ""
    [] OTHER -> s

\* email.includes('@')
IncludesAt(s) == s \in {"Alice@Mail ", "carol@mail"}

\* password.length < 6 ; the length of a value that is not a string is
\* undefined, and the comparison false
TooShort(v) == IsString(v) /\ v.s = "short"

\* the body of a register or login request before any field is read
NoBody ==
  [username |-> Absent, email |-> Absent, password |-> Absent, role |-> "",
   names |-> FALSE, firstName |-> Absent, lastName |-> Absent,
   currentPassword |-> Absent, newPassword |-> Absent,
   confirmPassword |-> Absent]

-----------------------------------------------------------------------------
(* Request slots *)

Idle ==
  [kind |-> "none", pc |-> "idle", tok |-> NoToken, job |-> 0, app |-> 0,
   seeker |-> 0, status |-> "", rating |-> JUndefined, todo |-> <<>>,
   arr |-> <<>>, ver |-> 0, deadline |-> 0, fields |-> {}, resp |-> 0,
   out |-> {}, at |-> "", body |-> NoBody, found |-> {},
   path |-> <<>>, cookie |-> Absent, redirect |-> "", retry |-> <<>>]

Free(p) == proc[p].pc \in {"idle", "done", "crashed"}
AllFree == \A p \in Procs : Free(p)

At(p, kind, pc) == proc[p].kind = kind /\ proc[p].pc = pc

Goto(p, r) == proc' = [proc EXCEPT ![p] = r]

\* the handler returns NextResponse.json(..., {status: code}); what stays
\* of the request is who sent it, the ids it named or created, and the answer
Finish(r, code) ==
  [Idle EXCEPT !.kind = r.kind, !.pc = "done", !.tok = r.tok, !.job = r.job,
               !.app = r.app, !.resp = code]

Respond(p, code) == Goto(p, Finish(proc[p], code))

-----------------------------------------------------------------------------
(* POST /api/applications : a job seeker applies to a job *)

\* appliedJobs.some(appliedJob => appliedJob.jobId && appliedJob.jobId.toString() === jobId)
AlreadyApplied(entries, jobId) ==
  \E i \in 1..Len(entries) : entries[i].jobId # 0 /\ entries[i].jobId = jobId

\* applies whose application document does not exist yet
ApplyingProcs == {q \in Procs : proc[q].kind = "apply" /\ ~Free(q) /\ proc[q].app = 0}

\* token, role and jobId checks; jobId 0 stands for a missing or malformed id
ApplyBegin(p, toks) ==
  /\ Free(p)
  /\ nextApplicationId + Cardinality(ApplyingProcs) <= MaxApps
  /\ \E tok \in toks, j \in 0..MaxJobs :
       LET r == [Idle EXCEPT !.kind = "apply", !.tok = tok, !.job = j] IN
       IF AuthCheck(tok, "job-seeker") # 0
         THEN Goto(p, Finish(r, AuthCheck(tok, "job-seeker")))
       ELSE IF j = 0 THEN Goto(p, Finish(r, 400))
       ELSE Goto(p, [r EXCEPT !.pc = "findJob"])
  /\ UNCHANGED <<db, nextJobId, nextApplicationId, nextUserId, now, pendingClose, mongo>>

\* Job.findById, the Active check and the deadline check
ApplyFindJob(p) ==
  /\ At(p, "apply", "findJob")
  /\ LET found == FindById(jobs, proc[p].job) IN
     IF found = {} THEN Respond(p, 404)
     ELSE IF TheDoc(found).status # "Active" THEN Respond(p, 400)
     ELSE IF TheDoc(found).deadline # 0 /\ now > TheDoc(found).deadline
       THEN Goto(p, [proc[p] EXCEPT !.pc = "closeJob"])
     ELSE Goto(p, [proc[p] EXCEPT !.pc = "findExisting"])
  /\ UNCHANGED <<db, nextJobId, nextApplicationId, nextUserId, now, pendingClose, mongo>>

\* mutant: the 400 answer without the update of the job
ApplyCloseJob_Mut(p) ==
  /\ At(p, "apply", "closeJob")
  /\ Respond(p, 400)
  /\ UNCHANGED <<db, nextJobId, nextApplicationId, nextUserId, now, pendingClose, mongo>>

\* Job.findByIdAndUpdate(jobId, {status: 'Closed'}) and the 400 answer
ApplyCloseJob(p) ==
  /\ At(p, "apply", "closeJob")
  /\ jobs' = {IF j.id = proc[p].job THEN [j EXCEPT !.status = "Closed"] ELSE j : j \in jobs}
  /\ Respond(p, 400)
  /\ UNCHANGED <<users, appliedJobs, docVersion, applications, nextJobId,
                 nextApplicationId, nextUserId, now, pendingClose, mongo>>

\* Application.findOne({jobId, jobSeekerId})
ApplyFindExisting(p) ==
  /\ At(p, "apply", "findExisting")
  /\ IF \E a \in applications :
          a.jobId = proc[p].job /\ a.jobSeekerId = proc[p].tok.uid
       THEN Respond(p, 400)
       ELSE Goto(p, [proc[p] EXCEPT !.pc = "findSeeker"])
  /\ UNCHANGED <<db, nextJobId, nextApplicationId, nextUserId, now, pendingClose, mongo>>

\* JobSeeker.findById, the profile check and the appliedJobs check
ApplyFindSeeker(p) ==
  /\ At(p, "apply", "findSeeker")
  /\ LET found == FindById(JobSeekers, proc[p].tok.uid) IN
     IF found = {} THEN Respond(p, 404)
     ELSE IF TheDoc(found).firstName = "" \/ TheDoc(found).lastName = ""
       THEN Respond(p, 400)
     ELSE IF AlreadyApplied(appliedJobs[proc[p].tok.uid], proc[p].job)
       THEN Respond(p, 400)
     ELSE Goto(p, [proc[p] EXCEPT !.pc = "create"])
  /\ UNCHANGED <<db, nextJobId, nextApplicationId, nextUserId, now, pendingClose, mongo>>

\* mutant: the application record and the appliedJobs entry are written in
\* one atomic step
ApplyCreate_Mut(p) ==
  /\ At(p, "apply", "create")
  /\ nextApplicationId <= MaxApps
  /\ applications' = applications \cup
       {[id |-> nextApplicationId, jobId |-> proc[p].job,
         jobSeekerId |-> proc[p].tok.uid, status |-> "Pending",
         rating |-> JNum(0)]}
  /\ appliedJobs' = [appliedJobs EXCEPT ![proc[p].tok.uid] = Append(@,
         [jobId |-> proc[p].job, applicationId |-> nextApplicationId,
          status |-> "Pending", rating |-> JNum(0)])]
  /\ nextApplicationId' = nextApplicationId + 1
  /\ Goto(p, [proc[p] EXCEPT !.pc = "incJob", !.app = nextApplicationId])
  /\ UNCHANGED <<users, docVersion, jobs, nextJobId, nextUserId, now, pendingClose, mongo>>

\* the unique index {jobId: 1, jobSeekerId: 1} of the applications collection
UniqueIndexAllows(jobId, jobSeekerId) ==
  ~\E a \in applications : a.jobId = jobId /\ a.jobSeekerId = jobSeekerId

\* Application.create: status Pending, rating 0; a duplicate key error (E11000)
\* reaches the outer catch, which answers 500
ApplyCreate(p) ==
  /\ At(p, "apply", "create")
  /\ nextApplicationId <= MaxApps
  /\ IF UniqueIndexAllows(proc[p].job, proc[p].tok.uid)
       THEN /\ applications' = applications \cup
                 {[id |-> nextApplicationId, jobId |-> proc[p].job,
                   jobSeekerId |-> proc[p].tok.uid, status |-> "Pending",
                   rating |-> JNum(0)]}
            /\ nextApplicationId' = nextApplicationId + 1
            /\ Goto(p, [proc[p] EXCEPT !.pc = "incJob", !.app = nextApplicationId])
       ELSE /\ Respond(p, 500)
            /\ UNCHANGED <<applications, nextApplicationId>>
  /\ UNCHANGED <<users, appliedJobs, docVersion, jobs, nextJobId, nextUserId,
                 now, pendingClose, mongo>>

\* Job.findByIdAndUpdate(jobId, {$inc: {applicants: 1}})
ApplyIncJob(p) ==
  /\ At(p, "apply", "incJob")
  /\ jobs' = {IF j.id = proc[p].job THEN [j EXCEPT !.applicants = @ + 1] ELSE j : j \in jobs}
  /\ Goto(p, [proc[p] EXCEPT !.pc = "loadSeeker"])
  /\ UNCHANGED <<users, appliedJobs, docVersion, applications, nextJobId,
                 nextApplicationId, nextUserId, now, pendingClose, mongo>>

\* the second JobSeeker.findById and the duplicate check on the loaded
\* document; a missing document throws into the inner catch, which is ignored
ApplyLoadSeeker(p) ==
  /\ At(p, "apply", "loadSeeker")
  /\ IF FindById(JobSeekers, proc[p].tok.uid) = {} THEN Respond(p, 201)
     ELSE IF AlreadyApplied(appliedJobs[proc[p].tok.uid], proc[p].job)
       THEN Respond(p, 201)
     ELSE Goto(p, [proc[p] EXCEPT !.pc = "saveSeeker"])
  /\ UNCHANGED <<db, nextJobId, nextApplicationId, nextUserId, now, pendingClose, mongo>>

\* jobSeekerDoc.appliedJobs.push(appliedJobData); jobSeekerDoc.save():
\* mongoose sends the push as $push with $inc of __v and no version condition
ApplySaveSeeker(p) ==
  /\ At(p, "apply", "saveSeeker")
  /\ LET s == proc[p].tok.uid IN
     /\ appliedJobs' = [appliedJobs EXCEPT ![s] = Append(@,
            [jobId |-> proc[p].job, applicationId |-> proc[p].app,
             status |-> "Pending", rating |-> JNum(0)])]
     /\ docVersion' = [docVersion EXCEPT ![s] = @ + 1]
  /\ Respond(p, 201)
  /\ UNCHANGED <<users, jobs, applications, nextJobId, nextApplicationId,
                 nextUserId, now, pendingClose, mongo>>

\* the steps of an apply; ApplyCloseJob, which only a job with a deadline
\* reaches, is listed by the specifications whose jobs have deadlines
ApplyStep(p) ==
  \/ ApplyFindJob(p)
  \/ ApplyFindExisting(p)
  \/ ApplyFindSeeker(p)
  \/ ApplyCreate(p)
  \/ ApplyIncJob(p)
  \/ ApplyLoadSeeker(p)
  \/ ApplySaveSeeker(p)

-----------------------------------------------------------------------------
(* POST /api/jobs : an employer posts a job *)

PostingProcs == {q \in Procs : proc[q].kind = "postJob" /\ ~Free(q)}

\* the body fields a request can carry or leave out
JobFieldSets ==
  {{"title", "description", "location"}, {"title", "description"},
   {"description", "location"}}

\* token and role checks
PostJobBegin(p, toks) ==
  /\ Free(p)
  /\ nextJobId + Cardinality(PostingProcs) <= MaxJobs
  /\ \E tok \in toks :
       LET r == [Idle EXCEPT !.kind = "postJob", !.tok = tok] IN
       IF AuthCheck(tok, "employer") # 0
         THEN Goto(p, Finish(r, AuthCheck(tok, "employer")))
         ELSE Goto(p, [r EXCEPT !.pc = "findEmployer"])
  /\ UNCHANGED <<db, nextJobId, nextApplicationId, nextUserId, now, pendingClose, mongo>>

\* Employer.findById, then jobData from the body: status ("" when absent),
\* deadline (0 when absent) and the text fields that are present; title and
\* description are checked by the handler
PostJobFindEmployer(p, statuses, deadlines) ==
  /\ At(p, "postJob", "findEmployer")
  /\ IF FindById(Employers, proc[p].tok.uid) = {} THEN Respond(p, 404)
     ELSE \E st \in statuses, dl \in deadlines, fs \in JobFieldSets :
       IF ~({"title", "description"} \subseteq fs)
         THEN Respond(p, 400)
         ELSE Goto(p, [proc[p] EXCEPT !.pc = "create", !.status = st,
                                      !.deadline = dl, !.fields = fs])
  /\ UNCHANGED <<db, nextJobId, nextApplicationId, nextUserId, now, pendingClose, mongo>>

\* JobSchema validation: location is required, status is one of the enum
JobSchemaValid(fields, status) ==
  "location" \in fields /\ status \in JobStatuses

\* Job.create(jobData) with status: data.status || 'Active', applicants: 0;
\* a ValidationError reaches the catch, which answers 500
PostJobCreate(p) ==
  /\ At(p, "postJob", "create")
  /\ nextJobId <= MaxJobs
  /\ LET st == IF proc[p].status = "" THEN "Active" ELSE proc[p].status IN
     IF JobSchemaValid(proc[p].fields, st)
       THEN /\ jobs' = jobs \cup
                 {[id |-> nextJobId, employerId |-> proc[p].tok.uid,
                   status |-> st, deadline |-> proc[p].deadline,
                   applicants |-> 0]}
            /\ nextJobId' = nextJobId + 1
            /\ Goto(p, Finish([proc[p] EXCEPT !.job = nextJobId], 201))
       ELSE /\ Respond(p, 500)
            /\ UNCHANGED <<jobs, nextJobId>>
  /\ UNCHANGED <<users, appliedJobs, docVersion, applications,
                 nextApplicationId, nextUserId, now, pendingClose, mongo>>

PostJobStep(p, statuses, deadlines) ==
  \/ PostJobFindEmployer(p, statuses, deadlines)
  \/ PostJobCreate(p)

-----------------------------------------------------------------------------
(* PATCH /api/applications/[applicationId] : an employer sets status, rating *)

\* the status values a body can carry: the six of the enum, another string,
\* or "" for none
StatusInputs == ApplicationStatuses \cup {"Bogus", ""}

\* the rating values a body can carry
RatingInputs ==
  {JUndefined, JNull, JNum(-1), JNum(0), JNum(5), JNum(6), JNumStr(5), JWord,
   JArr(3)}

\* mutant: any non-empty status is taken
StatusAccepted_Mut(status) == status # ""

\* status && [...].includes(status)
StatusAccepted(status) == status # "" /\ status \in ApplicationStatuses

\* rating !== undefined && rating >= 0 && rating <= 5
RatingAccepted(rating) == rating.t # "undefined" /\ JsInRange(rating, 0, 5)

\* token and role checks; params.applicationId
PatchBegin(p, toks) ==
  /\ Free(p)
  /\ \E tok \in toks, a \in AppIds :
       LET r == [Idle EXCEPT !.kind = "patch", !.tok = tok, !.app = a] IN
       IF AuthCheck(tok, "employer") # 0
         THEN Goto(p, Finish(r, AuthCheck(tok, "employer")))
         ELSE Goto(p, [r EXCEPT !.pc = "findApp"])
  /\ UNCHANGED <<db, nextJobId, nextApplicationId, nextUserId, now, pendingClose, mongo>>

\* Application.findById
PatchFindApp(p) ==
  /\ At(p, "patch", "findApp")
  /\ LET found == FindById(applications, proc[p].app) IN
     IF found = {} THEN Respond(p, 404)
     ELSE Goto(p, [proc[p] EXCEPT !.pc = "findJob", !.job = TheDoc(found).jobId])
  /\ UNCHANGED <<db, nextJobId, nextApplicationId, nextUserId, now, pendingClose, mongo>>

\* mutant: the ownership check is left out
PatchOwnerCheck_Mut(job, tok) == TRUE

\* job.employerId.toString() === employerIdObjectId.toString()
PatchOwnerCheck(job, tok) == job.employerId = tok.uid

\* Job.findById(application.jobId) and the ownership check; then the body's
\* status and rating, from which updateFields is built
PatchFindJob(p, statuses, ratings) ==
  /\ At(p, "patch", "findJob")
  /\ LET found == FindById(jobs, proc[p].job) IN
     IF found = {} THEN Respond(p, 404)
     ELSE IF ~PatchOwnerCheck(TheDoc(found), proc[p].tok) THEN Respond(p, 403)
     ELSE \E st \in statuses, rt \in ratings :
       Goto(p, [proc[p] EXCEPT !.pc = "updateApp", !.status = st, !.rating = rt])
  /\ UNCHANGED <<db, nextJobId, nextApplicationId, nextUserId, now, pendingClose, mongo>>

\* the fields of updateFields / updateAppliedJobs applied to a record that
\* has a status and a rating
ApplyUpdate(d, status, rating) ==
  [d EXCEPT !.status = IF StatusAccepted(status) THEN status ELSE @,
            !.rating = IF RatingAccepted(rating) THEN CastNumber(rating) ELSE @]

\* Application.findByIdAndUpdate(id, {$set: updateFields}, {new: true});
\* a CastError of the update is answered 500 by the catch, and null (the
\* document is gone) is answered 500
PatchUpdateApp(p) ==
  /\ At(p, "patch", "updateApp")
  /\ LET found == FindById(applications, proc[p].app) IN
     IF (RatingAccepted(proc[p].rating) /\ CastFails(proc[p].rating)) \/ found = {}
       THEN /\ Respond(p, 500)
            /\ UNCHANGED applications
       ELSE /\ applications' = Replace(applications, TheDoc(found),
                 ApplyUpdate(TheDoc(found), proc[p].status, proc[p].rating))
            /\ IF StatusAccepted(proc[p].status) \/ RatingAccepted(proc[p].rating)
                 THEN Goto(p, [proc[p] EXCEPT !.pc = "updateMirror",
                                              !.seeker = TheDoc(found).jobSeekerId])
                 ELSE Respond(p, 200)
  /\ UNCHANGED <<users, appliedJobs, docVersion, jobs, nextJobId,
                 nextApplicationId, nextUserId, now, pendingClose, mongo>>

\* mutant: the array filter of the update never matches an element
Positional_Mut(entries, applicationId) == 0

\* the index the positional operator $ resolves to: the first element of
\* appliedJobs whose applicationId matches, 0 when the filter matches nothing
Positional(entries, applicationId) ==
  IF \E i \in 1..Len(entries) : entries[i].applicationId = applicationId
    THEN CHOOSE i \in 1..Len(entries) :
           /\ entries[i].applicationId = applicationId
           /\ \A k \in 1..(i - 1) : entries[k].applicationId # applicationId
    ELSE 0

\* JobSeeker.updateOne({_id, 'appliedJobs.applicationId': id},
\*                     {$set: {'appliedJobs.$.status', 'appliedJobs.$.rating'}})
PatchUpdateMirror(p) ==
  /\ At(p, "patch", "updateMirror")
  /\ LET s == proc[p].seeker
         i == Positional(appliedJobs[s], proc[p].app) IN
     appliedJobs' =
       IF FindById(JobSeekers, s) # {} /\ i # 0
         THEN [appliedJobs EXCEPT ![s][i] =
                 ApplyUpdate(@, proc[p].status, proc[p].rating)]
         ELSE appliedJobs
  /\ Respond(p, 200)
  /\ UNCHANGED <<users, docVersion, jobs, applications, nextJobId,
                 nextApplicationId, nextUserId, now, pendingClose, mongo>>

PatchStep(p, statuses, ratings) ==
  \/ PatchFindApp(p)
  \/ PatchFindJob(p, statuses, ratings)
  \/ PatchUpdateApp(p)
  \/ PatchUpdateMirror(p)

-----------------------------------------------------------------------------
(* DELETE /api/my-applications/[applicationId] : a job seeker withdraws *)

\* token and role checks; params.applicationId, 0 for a malformed id
RemoveBegin(p, toks) ==
  /\ Free(p)
  /\ \E tok \in toks, a \in 0..MaxApps :
       LET r == [Idle EXCEPT !.kind = "remove", !.tok = tok, !.app = a] IN
       IF AuthCheck(tok, "job-seeker") # 0
         THEN Goto(p, Finish(r, AuthCheck(tok, "job-seeker")))
       ELSE IF a = 0 THEN Goto(p, Finish(r, 400))
       ELSE Goto(p, [r EXCEPT !.pc = "findApp"])
  /\ UNCHANGED <<db, nextJobId, nextApplicationId, nextUserId, now, pendingClose, mongo>>

\* mutant: every job seeker passes the ownership check
RemoveOwnerCheck_Mut(application, tok) == TRUE

\* the application belongs to the caller
RemoveOwnerCheck(application, tok) == application.jobSeekerId = tok.uid

\* Application.findById and the ownership check
RemoveFindApp(p) ==
  /\ At(p, "remove", "findApp")
  /\ LET found == FindById(applications, proc[p].app) IN
     IF found = {} THEN Respond(p, 404)
     ELSE IF ~RemoveOwnerCheck(TheDoc(found), proc[p].tok) THEN Respond(p, 403)
     ELSE Goto(p, [proc[p] EXCEPT !.pc = "loadSeeker", !.job = TheDoc(found).jobId])
  /\ UNCHANGED <<db, nextJobId, nextApplicationId, nextUserId, now, pendingClose, mongo>>

\* the filter callback: drop the entry of this application, and an entry of
\* the same job that carries no applicationId
RemoveKeeps(e, applicationId, jobId) ==
  ~ \/ (e.applicationId # 0 /\ e.applicationId = applicationId)
    \/ (e.jobId # 0 /\ e.jobId = jobId /\ e.applicationId = 0)

RemoveFilter(entries, applicationId, jobId) ==
  SelectSeq(entries, LAMBDA e : RemoveKeeps(e, applicationId, jobId))

\* JobSeeker.findById and jobSeeker.appliedJobs = filteredAppliedJobs; an
\* assignment that changes nothing leaves the path unmodified, and save()
\* then writes nothing
RemoveLoadSeeker(p) ==
  /\ At(p, "remove", "loadSeeker")
  /\ LET s == proc[p].tok.uid
         filtered == RemoveFilter(appliedJobs[s], proc[p].app, proc[p].job) IN
     IF FindById(JobSeekers, s) = {} \/ filtered = appliedJobs[s]
       THEN Goto(p, [proc[p] EXCEPT !.pc = "deleteApp"])
       ELSE Goto(p, [proc[p] EXCEPT !.pc = "saveSeeker", !.arr = filtered,
                                    !.ver = docVersion[s]])
  /\ UNCHANGED <<db, nextJobId, nextApplicationId, nextUserId, now, pendingClose, mongo>>

\* document.save() of a replaced array: mongoose sends $set of the whole
\* array with the condition __v = <version read> and $inc of __v
VersionMatches(s, ver) == docVersion[s] = ver

SaveArray(s, arr) ==
  /\ appliedJobs' = [appliedJobs EXCEPT ![s] = arr]
  /\ docVersion' = [docVersion EXCEPT ![s] = @ + 1]

\* jobSeeker.save(); a VersionError reaches the inner catch: 500, and the
\* application document is kept
RemoveSaveSeeker(p) ==
  /\ At(p, "remove", "saveSeeker")
  /\ IF VersionMatches(proc[p].tok.uid, proc[p].ver)
       THEN /\ SaveArray(proc[p].tok.uid, proc[p].arr)
            /\ Goto(p, [proc[p] EXCEPT !.pc = "deleteApp", !.arr = <<>>, !.ver = 0])
       ELSE /\ Respond(p, 500)
            /\ UNCHANGED <<appliedJobs, docVersion>>
  /\ UNCHANGED <<users, jobs, applications, nextJobId, nextApplicationId,
                 nextUserId, now, pendingClose, mongo>>

\* Application.findByIdAndDelete
RemoveDeleteApp(p) ==
  /\ At(p, "remove", "deleteApp")
  /\ applications' = applications \ FindById(applications, proc[p].app)
  /\ Goto(p, [proc[p] EXCEPT !.pc = "decJob"])
  /\ UNCHANGED <<users, appliedJobs, docVersion, jobs, nextJobId,
                 nextApplicationId, nextUserId, now, pendingClose, mongo>>

\* Job.findByIdAndUpdate(jobId, {$inc: {applicants: -1}}) and the 200 answer
RemoveDecJob(p) ==
  /\ At(p, "remove", "decJob")
  /\ jobs' = {IF j.id = proc[p].job THEN [j EXCEPT !.applicants = @ - 1] ELSE j : j \in jobs}
  /\ Respond(p, 200)
  /\ UNCHANGED <<users, appliedJobs, docVersion, applications, nextJobId,
                 nextApplicationId, nextUserId, now, pendingClose, mongo>>

RemoveStep(p) ==
  \/ RemoveFindApp(p)
  \/ RemoveLoadSeeker(p)
  \/ RemoveSaveSeeker(p)
  \/ RemoveDeleteApp(p)
  \/ RemoveDecJob(p)

-----------------------------------------------------------------------------
(* DELETE /api/jobs/[jobId] : the owning employer deletes a job *)

\* token and role checks; params.jobId
DeleteJobBegin(p, toks) ==
  /\ Free(p)
  /\ \E tok \in toks, j \in JobIds :
       LET r == [Idle EXCEPT !.kind = "deleteJob", !.tok = tok, !.job = j] IN
       IF AuthCheck(tok, "employer") # 0
         THEN Goto(p, Finish(r, AuthCheck(tok, "employer")))
         ELSE Goto(p, [r EXCEPT !.pc = "findJob"])
  /\ UNCHANGED <<db, nextJobId, nextApplicationId, nextUserId, now, pendingClose, mongo>>

\* the job belongs to the caller
DeleteJobOwnerCheck(job, tok) == job.employerId = tok.uid

\* Job.findById and the ownership check
DeleteJobFindJob(p) ==
  /\ At(p, "deleteJob", "findJob")
  /\ LET found == FindById(jobs, proc[p].job) IN
     IF found = {} THEN Respond(p, 404)
     ELSE IF ~DeleteJobOwnerCheck(TheDoc(found), proc[p].tok) THEN Respond(p, 403)
     ELSE Goto(p, [proc[p] EXCEPT !.pc = "findApps"])
  /\ UNCHANGED <<db, nextJobId, nextApplicationId, nextUserId, now, pendingClose, mongo>>

\* [...new Set(applications.map(app => app.jobSeekerId.toString()))] over the
\* applications of the job in _id order, from application id on
RECURSIVE JobSeekerIdsOf(_, _)
JobSeekerIdsOf(jobId, id) ==
  IF id >= nextApplicationId THEN <<>>
  ELSE LET found == {a \in applications : a.id = id /\ a.jobId = jobId}
           rest == JobSeekerIdsOf(jobId, id + 1) IN
       IF found = {} THEN rest
       ELSE <<TheDoc(found).jobSeekerId>> \o
            SelectSeq(rest, LAMBDA s : s # TheDoc(found).jobSeekerId)

\* Application.find({jobId})
DeleteJobFindApps(p) ==
  /\ At(p, "deleteJob", "findApps")
  /\ Goto(p, [proc[p] EXCEPT !.pc = "loadSeeker",
                             !.todo = JobSeekerIdsOf(proc[p].job, 1)])
  /\ UNCHANGED <<db, nextJobId, nextApplicationId, nextUserId, now, pendingClose, mongo>>

\* mutant: the cascade keeps the entries of the deleted job as well
DeleteJobKeeps_Mut(e, jobId) == e.jobId # 0

\* the filter callback of the cascade: keep the entries of other jobs
DeleteJobKeeps(e, jobId) == e.jobId # 0 /\ e.jobId # jobId

DeleteJobFilter(entries, jobId) ==
  SelectSeq(entries, LAMBDA e : DeleteJobKeeps(e, jobId))

\* one turn of the loop over jobSeekerIds: JobSeeker.findById and the filter;
\* the document is saved only when the length changed
DeleteJobLoadSeeker(p) ==
  /\ At(p, "deleteJob", "loadSeeker")
  /\ IF proc[p].todo = <<>>
       THEN Goto(p, [proc[p] EXCEPT !.pc = "deleteApps"])
       ELSE LET s == Head(proc[p].todo)
                filtered == DeleteJobFilter(appliedJobs[s], proc[p].job) IN
            IF FindById(JobSeekers, s) = {} \/ Len(filtered) = Len(appliedJobs[s])
              THEN Goto(p, [proc[p] EXCEPT !.todo = Tail(@)])
              ELSE Goto(p, [proc[p] EXCEPT !.pc = "saveSeeker", !.arr = filtered,
                                           !.ver = docVersion[s]])
  /\ UNCHANGED <<db, nextJobId, nextApplicationId, nextUserId, now, pendingClose, mongo>>

\* jobSeeker.save() inside the loop; an error is logged and the loop goes on
DeleteJobSaveSeeker(p) ==
  /\ At(p, "deleteJob", "saveSeeker")
  /\ LET s == Head(proc[p].todo) IN
     IF VersionMatches(s, proc[p].ver)
       THEN SaveArray(s, proc[p].arr)
       ELSE UNCHANGED <<appliedJobs, docVersion>>
  /\ Goto(p, [proc[p] EXCEPT !.pc = "loadSeeker", !.todo = Tail(@),
                             !.arr = <<>>, !.ver = 0])
  /\ UNCHANGED <<users, jobs, applications, nextJobId, nextApplicationId,
                 nextUserId, now, pendingClose, mongo>>

\* Application.deleteMany({jobId})
DeleteJobDeleteApps(p) ==
  /\ At(p, "deleteJob", "deleteApps")
  /\ applications' = {a \in applications : a.jobId # proc[p].job}
  /\ Goto(p, [proc[p] EXCEPT !.pc = "deleteJob"])
  /\ UNCHANGED <<users, appliedJobs, docVersion, jobs, nextJobId,
                 nextApplicationId, nextUserId, now, pendingClose, mongo>>

\* Job.findByIdAndDelete and the 200 answer
DeleteJobDeleteJob(p) ==
  /\ At(p, "deleteJob", "deleteJob")
  /\ jobs' = jobs \ FindById(jobs, proc[p].job)
  /\ Respond(p, 200)
  /\ UNCHANGED <<users, appliedJobs, docVersion, applications, nextJobId,
                 nextApplicationId, nextUserId, now, pendingClose, mongo>>

DeleteJobStep(p) ==
  \/ DeleteJobFindJob(p)
  \/ DeleteJobFindApps(p)
  \/ DeleteJobLoadSeeker(p)
  \/ DeleteJobSaveSeeker(p)
  \/ DeleteJobDeleteApps(p)
  \/ DeleteJobDeleteJob(p)

-----------------------------------------------------------------------------
(* The portal with two registered job seekers and two registered employers *)

RegisteredUsers ==
  {UserDoc(1, "job-seeker", "alice", "alice@mail", "pw-alice"),
   UserDoc(2, "job-seeker", "bob", "bob@mail", "pw-bob"),
   UserDoc(3, "employer", "acme", "hr@acme", "pw-acme"),
   UserDoc(4, "employer", "initech", "hr@initech", "pw-initech")}

Init ==
  /\ users = RegisteredUsers
  /\ appliedJobs = [u \in UserIds |-> <<>>]
  /\ docVersion = [u \in UserIds |-> 0]
  /\ jobs = {}
  /\ applications = {}
  /\ nextJobId = 1
  /\ nextApplicationId = 1
  /\ nextUserId = 5
  /\ now = 0
  /\ pendingClose = {}
  /\ mongo = NotConnected
  /\ proc = [p \in Procs |-> Idle]

\* the tokens of the registered users
UserTokens == {CreateToken(u) : u \in users}

\* the bodies the lifecycle requests are drawn from: jobs are posted Active
\* and without deadline; a PATCH carries an accepted or a refused status and
\* an accepted, a null or a refused rating
LifecycleStatuses == {"Reviewed", "Bogus"}
LifecycleRatings == {JNum(5), JNull, JNum(6)}

\* the steps of the application handlers
LifecycleStep(p) ==
  \/ PostJobStep(p, {""}, {0})
  \/ ApplyStep(p)
  \/ PatchStep(p, LifecycleStatuses, LifecycleRatings)
  \/ RemoveStep(p)
  \/ DeleteJobStep(p)

\* a new application request arrives
LifecycleBegin(p) ==
  \/ PostJobBegin(p, UserTokens)
  \/ ApplyBegin(p, UserTokens)
  \/ PatchBegin(p, UserTokens)
  \/ RemoveBegin(p, UserTokens)
  \/ DeleteJobBegin(p, UserTokens)

\* requests served one at a time, each run to completion
Next ==
  \/ AllFree /\ LifecycleBegin(1)
  \/ LifecycleStep(1)

Spec == Init /\ [][Next]_vars

-----------------------------------------------------------------------------
(* Claims on the application lifecycle, requests served one at a time *)

\* the indices of the appliedJobs entries of seeker s that carry applicationId
MirrorIndices(s, applicationId) ==
  {i \in 1..Len(appliedJobs[s]) : appliedJobs[s][i].applicationId = applicationId}

\* C1: with no request in flight, every application record has exactly one
\* appliedJobs entry of its job seeker with the same applicationId, status and
\* rating, and every appliedJobs entry has its application record
C1_MirrorConsistent ==
  AllFree =>
    /\ \A a \in applications :
         /\ Cardinality(MirrorIndices(a.jobSeekerId, a.id)) = 1
         /\ \A i \in MirrorIndices(a.jobSeekerId, a.id) :
              /\ appliedJobs[a.jobSeekerId][i].status = a.status
              /\ appliedJobs[a.jobSeekerId][i].rating = a.rating
    /\ \A s \in UserIds : \A i \in 1..Len(appliedJobs[s]) :
         \E a \in applications :
           a.id = appliedJobs[s][i].applicationId /\ a.jobSeekerId = s

\* two applications were made, a job deletion has just been answered 200 and
\* the application that is left was set to Reviewed with rating 5
C1_Witness ==
  /\ proc[1].kind = "deleteJob" /\ proc[1].pc = "done" /\ proc[1].resp = 200
  /\ nextApplicationId > 2
  /\ \E a \in applications : a.status = "Reviewed" /\ a.rating = JNum(5)

PatchByNonOwner(p) ==
  /\ proc[p].kind = "patch"
  /\ proc[p].tok.valid /\ proc[p].tok.role = "employer"
  /\ \E a \in applications : \E j \in jobs :
       a.id = proc[p].app /\ j.id = a.jobId /\ j.employerId # proc[p].tok.uid

\* C5: a PATCH by an employer who does not own the application's job is
\* answered 403, and no step of it changes an application record or an
\* appliedJobs entry
C5_NonOwnerPatchDenied ==
  /\ [](\A p \in Procs : (PatchByNonOwner(p) /\ proc[p].pc = "done")
                            => proc[p].resp = 403)
  /\ [][\A p \in Procs : (PatchByNonOwner(p) /\ proc'[p] # proc[p])
                            => UNCHANGED <<applications, appliedJobs>>]_vars

\* a PATCH by employer 4 of an application to a job of employer 3 got 403
C5_Witness ==
  /\ PatchByNonOwner(1) /\ proc[1].pc = "done" /\ proc[1].resp = 403
  /\ proc[1].tok.uid = 4

-----------------------------------------------------------------------------
(* A handler that stops between two of its database calls *)

\* the server process dies: the request in slot p performs no further step
\* and gives no answer; "at" keeps the call it was about to make
Crash(p) ==
  /\ ~Free(p)
  /\ Goto(p, [Finish(proc[p], 0) EXCEPT !.pc = "crashed", !.at = proc[p].pc])
  /\ UNCHANGED <<db, nextJobId, nextApplicationId, nextUserId, now, pendingClose, mongo>>

NextCrash ==
  \/ AllFree /\ PostJobBegin(1, UserTokens)
  \/ AllFree /\ ApplyBegin(1, UserTokens)
  \/ AllFree /\ RemoveBegin(1, UserTokens)
  \/ PostJobStep(1, {""}, {0})
  \/ ApplyStep(1)
  \/ RemoveStep(1)
  \/ Crash(1)

SpecCrash == Init /\ [][NextCrash]_vars

\* C2: an apply that stopped after Application.create and before the save of
\* the job seeker leaves its application record without an appliedJobs entry
C2_CrashLeavesRecordWithoutMirror ==
  \A p \in Procs :
    (/\ proc[p].kind = "apply" /\ proc[p].pc = "crashed"
     /\ proc[p].at \in {"incJob", "loadSeeker", "saveSeeker"}) =>
      /\ \E a \in applications :
           a.id = proc[p].app /\ a.jobSeekerId = proc[p].tok.uid
      /\ MirrorIndices(proc[p].tok.uid, proc[p].app) = {}

\* an apply stopped right before saving the job seeker, the applicant counter
\* already incremented
C2_Witness ==
  /\ proc[1].kind = "apply" /\ proc[1].pc = "crashed"
  /\ proc[1].at = "saveSeeker"
  /\ \E a \in applications : a.id = proc[1].app
  /\ \E j \in jobs : j.id = proc[1].job /\ j.applicants = 1

-----------------------------------------------------------------------------
(* Requests of one job seeker and one employer served at the same time *)

\* the callers of the interleaved runs: job seeker 1 and employer 3
ConcTokens == {CreateToken(u) : u \in {v \in RegisteredUsers : v.id \in {1, 3}}}

NextConc ==
  \E p \in Procs :
    \/ PostJobBegin(p, ConcTokens)
    \/ ApplyBegin(p, ConcTokens)
    \/ RemoveBegin(p, ConcTokens)
    \/ PostJobStep(p, {""}, {0})
    \/ ApplyStep(p)
    \/ RemoveStep(p)

SpecConc == Init /\ [][NextConc]_vars

\* C3: at most one application record and at most one appliedJobs entry per
\* (job, job seeker) pair in every state, and an apply is answered 201 only
\* when it created the record of its pair
C3_OnePerPair ==
  /\ \A a, b \in applications :
       (a.jobId = b.jobId /\ a.jobSeekerId = b.jobSeekerId) => a.id = b.id
  /\ \A s \in DOMAIN appliedJobs :
       \A i, k \in DOMAIN appliedJobs[s] :
         appliedJobs[s][i].jobId = appliedJobs[s][k].jobId => i = k
  /\ \A p \in Procs :
       (proc[p].kind = "apply" /\ proc[p].pc = "done" /\ proc[p].resp = 201)
         => proc[p].app # 0

-----------------------------------------------------------------------------
(* The reads of jobs, and the passing of time *)

\* job.deadline && now > new Date(job.deadline); deadline 0 stands for none
DeadlinePassed(job, t) == job.deadline # 0 /\ t > job.deadline

\* what a read reports of a job
Reported(job, status) == [id |-> job.id, status |-> status]

\* a read answers 200 with the reported jobs
RespondJobs(p, reported) ==
  Goto(p, [Finish(proc[p], 200) EXCEPT !.out = reported])

\* GET /api/jobs takes no token
ListJobsBegin(p) ==
  /\ Free(p)
  /\ Goto(p, [Idle EXCEPT !.kind = "listJobs", !.pc = "closeExpired"])
  /\ UNCHANGED <<db, nextJobId, nextApplicationId, nextUserId, now, pendingClose, mongo>>

\* Job.updateMany({status: 'Active', deadline < now}, {status: 'Closed'})
ListJobsCloseExpired(p) ==
  /\ At(p, "listJobs", "closeExpired")
  /\ jobs' = {IF j.status = "Active" /\ DeadlinePassed(j, now)
                THEN [j EXCEPT !.status = "Closed"] ELSE j : j \in jobs}
  /\ Goto(p, [proc[p] EXCEPT !.pc = "find"])
  /\ UNCHANGED <<users, appliedJobs, docVersion, applications, nextJobId,
                 nextApplicationId, nextUserId, now, pendingClose, mongo>>

\* Job.find({status: 'Active'}) and the 200 answer
ListJobsFind(p) ==
  /\ At(p, "listJobs", "find")
  /\ RespondJobs(p, {Reported(j, j.status) : j \in {i \in jobs : i.status = "Active"}})
  /\ UNCHANGED <<db, nextJobId, nextApplicationId, nextUserId, now, pendingClose, mongo>>

\* GET /api/jobs/employer : token and role checks
EmployerJobsBegin(p, toks) ==
  /\ Free(p)
  /\ \E tok \in toks :
       LET r == [Idle EXCEPT !.kind = "employerJobs", !.tok = tok] IN
       IF AuthCheck(tok, "employer") # 0
         THEN Goto(p, Finish(r, AuthCheck(tok, "employer")))
         ELSE Goto(p, [r EXCEPT !.pc = "find"])
  /\ UNCHANGED <<db, nextJobId, nextApplicationId, nextUserId, now, pendingClose, mongo>>

\* Job.find({employerId}); an Active job past its deadline is reported Closed
\* and its update is fired without being awaited
EmployerJobsFind(p) ==
  /\ At(p, "employerJobs", "find")
  /\ LET mine == {j \in jobs : j.employerId = proc[p].tok.uid}
         late == {j \in mine : j.status = "Active" /\ DeadlinePassed(j, now)} IN
     /\ pendingClose' = pendingClose \cup {j.id : j \in late}
     /\ RespondJobs(p, {Reported(j, IF j \in late THEN "Closed" ELSE j.status) : j \in mine})
  /\ UNCHANGED <<db, nextJobId, nextApplicationId, nextUserId, now, mongo>>

\* the fired Job.findByIdAndUpdate(job._id, {status: 'Closed'}) reaches the
\* database
BgClose ==
  /\ \E id \in pendingClose :
       /\ jobs' = {IF j.id = id THEN [j EXCEPT !.status = "Closed"] ELSE j : j \in jobs}
       /\ pendingClose' = pendingClose \ {id}
  /\ UNCHANGED <<users, appliedJobs, docVersion, applications, nextJobId,
                 nextApplicationId, nextUserId, now, proc, mongo>>

\* GET /api/jobs/[jobId] takes no token; params.jobId
GetJobBegin(p) ==
  /\ Free(p)
  /\ \E j \in JobIds :
       Goto(p, [Idle EXCEPT !.kind = "getJob", !.pc = "find", !.job = j])
  /\ UNCHANGED <<db, nextJobId, nextApplicationId, nextUserId, now, pendingClose, mongo>>

\* Job.findById(jobId) and the answer with status: job.status || 'Active'
GetJobFind(p) ==
  /\ At(p, "getJob", "find")
  /\ LET found == FindById(jobs, proc[p].job) IN
     IF found = {} THEN Respond(p, 404)
     ELSE RespondJobs(p, {Reported(TheDoc(found), TheDoc(found).status)})
  /\ UNCHANGED <<db, nextJobId, nextApplicationId, nextUserId, now, pendingClose, mongo>>

\* new Date() advances between requests; the answers of the finished requests
\* have been delivered
Tick ==
  /\ AllFree
  /\ now < MaxTime
  /\ now' = now + 1
  /\ proc' = [p \in Procs |-> Idle]
  /\ UNCHANGED <<db, nextJobId, nextApplicationId, nextUserId, pendingClose, mongo>>

\* the deadlines a posted job can carry: none, or day 1
JobDeadlines == {0, 1}

NextJobs ==
  \/ AllFree /\ PostJobBegin(1, UserTokens)
  \/ AllFree /\ ApplyBegin(1, UserTokens)
  \/ AllFree /\ ListJobsBegin(1)
  \/ AllFree /\ EmployerJobsBegin(1, UserTokens)
  \/ AllFree /\ GetJobBegin(1)
  \/ PostJobStep(1, {""}, JobDeadlines)
  \/ ApplyStep(1)
  \/ ApplyCloseJob(1)
  \/ ListJobsCloseExpired(1)
  \/ ListJobsFind(1)
  \/ EmployerJobsFind(1)
  \/ GetJobFind(1)
  \/ BgClose
  \/ Tick

SpecJobs == Init /\ [][NextJobs]_vars

\* the jobs a finished read was about
ReadCovers(r, job) ==
  CASE r.kind = "listJobs" -> TRUE
    [] r.kind = "employerJobs" -> job.employerId = r.tok.uid
    [] r.kind = "getJob" -> job.id = r.job
    [] OTHER -> FALSE

\* C8: once a read of a job whose deadline has passed is answered, the stored
\* status of the job is no longer Active and the answer does not show it Active
C8_ReadClosesExpiredJob ==
  \A p \in Procs :
    (proc[p].pc = "done" /\ proc[p].resp = 200) =>
      \A j \in jobs :
        (ReadCovers(proc[p], j) /\ DeadlinePassed(j, now)) =>
          /\ j.status # "Active"
          /\ \A r \in proc[p].out : r.id = j.id => r.status # "Active"

-----------------------------------------------------------------------------
(* Every status and rating a PATCH body can carry *)

\* the callers: job seeker 1 and the employers 3 and 4
PatchTokens == {CreateToken(u) : u \in {v \in RegisteredUsers : v.id \in {1, 3, 4}}}

NextPatch ==
  \/ AllFree /\ PostJobBegin(1, PatchTokens)
  \/ AllFree /\ ApplyBegin(1, PatchTokens)
  \/ AllFree /\ PatchBegin(1, PatchTokens)
  \/ PostJobStep(1, {""}, {0})
  \/ ApplyStep(1)
  \/ PatchStep(1, StatusInputs, RatingInputs)

SpecPatch == Init /\ [][NextPatch]_vars

\* the step of an owner's PATCH that sends the update of the application
PatchUpdates(p) == At(p, "patch", "updateApp") /\ proc'[p].pc # "updateApp"

\* the status the application of request p has after the step
StatusSetTo(p, status) ==
  \A a \in applications : a.id = proc[p].app =>
    \E b \in applications' : b.id = a.id /\ b.status = status

\* the status the application of request p has before the step
StatusKept(p) ==
  \A a \in applications : a.id = proc[p].app => StatusSetTo(p, a.status)

IsRating(v) == v.t = "number" /\ v.n >= 0 /\ v.n <= 5

\* C10: the rating of every application and of every appliedJobs entry is a
\* number from 0 to 5
C10_RatingInRange ==
  /\ \A a \in applications : IsRating(a.rating)
  /\ \A s \in DOMAIN appliedJobs : \A i \in DOMAIN appliedJobs[s] :
       IsRating(appliedJobs[s][i].rating)

-----------------------------------------------------------------------------
(* POST /api/auth/register and POST /api/auth/login *)

\* a finished register or login keeps its body next to its answer
RespondAuth(p, r, code, cookies) ==
  Goto(p, [Finish(r, code) EXCEPT !.body = r.body, !.out = cookies])

RegisteringProcs == {q \in Procs : proc[q].kind = "register" /\ ~Free(q)}

\* mutant: the filter looks at the username only
HoldsUsernameOrEmail_Mut(u, username, email) == u.username = username

\* the findOne filter {$or: [{username}, {email}]}
HoldsUsernameOrEmail(u, username, email) ==
  u.username = username \/ u.email = email

\* the body is read and validated; a TypeError of email.includes or of
\* username.toLowerCase reaches the catch, which answers 500
RegisterBegin(p, usernames, emails, passwords, roles) ==
  /\ Free(p)
  /\ nextUserId + Cardinality(RegisteringProcs) <= MaxUsers
  /\ \E username \in usernames, email \in emails, password \in passwords,
        role \in roles, names \in BOOLEAN :
       LET r == [Idle EXCEPT !.kind = "register",
                   !.body = [NoBody EXCEPT !.username = username,
                                           !.email = email,
                                           !.password = password,
                                           !.role = role,
                                           !.names = names]] IN
       IF ~Truthy(username) \/ ~Truthy(password) \/ ~names \/ role = ""
         THEN RespondAuth(p, r, 400, {})
       ELSE IF TooShort(password) THEN RespondAuth(p, r, 400, {})
       ELSE IF ~Truthy(email) THEN RespondAuth(p, r, 400, {})
       ELSE IF ~IsString(email) THEN RespondAuth(p, r, 500, {})
       ELSE IF ~IncludesAt(email.s) THEN RespondAuth(p, r, 400, {})
       ELSE IF role \notin {"job-seeker", "employer"} THEN RespondAuth(p, r, 400, {})
       ELSE IF ~IsString(username) THEN RespondAuth(p, r, 500, {})
       ELSE Goto(p, [r EXCEPT !.pc = "findJobSeeker"])
  /\ UNCHANGED <<db, nextJobId, nextApplicationId, nextUserId, now, pendingClose, mongo>>

\* usernameLower and emailLower of a request
UsernameLower(r) == ToLowerCase(r.body.username.s)
EmailLower(r) == Trim(ToLowerCase(r.body.email.s))

\* JobSeeker.findOne({$or: [{username: usernameLower}, {email: emailLower}]})
RegisterFindJobSeeker(p) ==
  /\ At(p, "register", "findJobSeeker")
  /\ Goto(p, [proc[p] EXCEPT !.pc = "findEmployer",
        !.found = {u \in JobSeekers :
                     HoldsUsernameOrEmail(u, UsernameLower(proc[p]), EmailLower(proc[p]))}])
  /\ UNCHANGED <<db, nextJobId, nextApplicationId, nextUserId, now, pendingClose, mongo>>

\* Employer.findOne of the same filter, then existingJobSeeker || existingEmployer
RegisterFindEmployer(p) ==
  /\ At(p, "register", "findEmployer")
  /\ LET existingEmployer ==
           {u \in Employers :
              HoldsUsernameOrEmail(u, UsernameLower(proc[p]), EmailLower(proc[p]))} IN
     IF proc[p].found # {} \/ existingEmployer # {}
       THEN RespondAuth(p, proc[p], 409, {})
       ELSE Goto(p, [proc[p] EXCEPT !.pc = "create"])
  /\ UNCHANGED <<db, nextJobId, nextApplicationId, nextUserId, now, pendingClose, mongo>>

\* the unique index of username in the collection of a role
UsernameIndexAllows(role, username) ==
  \A u \in users : u.role = role => u.username # username

\* hashPassword, which throws for a password that is not a string (500);
\* then JobSeeker.create or Employer.create, where the schema lowers and trims
\* username and email and E11000 of the unique index is answered 409; then
\* the verification mail, whose failure is only logged, and the 201 answer
RegisterCreate(p) ==
  /\ At(p, "register", "create")
  /\ nextUserId <= MaxUsers
  /\ LET username == Trim(ToLowerCase(UsernameLower(proc[p])))
         email == Trim(ToLowerCase(EmailLower(proc[p]))) IN
     IF ~IsString(proc[p].body.password)
       THEN /\ RespondAuth(p, proc[p], 500, {})
            /\ UNCHANGED <<users, nextUserId>>
     ELSE IF ~UsernameIndexAllows(proc[p].body.role, username)
       THEN /\ RespondAuth(p, proc[p], 409, {})
            /\ UNCHANGED <<users, nextUserId>>
     ELSE /\ users' = users \cup
               {[UserDoc(nextUserId, proc[p].body.role, username, email,
                         proc[p].body.password.s)
                  EXCEPT !.isEmailVerified = FALSE,
                         !.emailVerificationToken = nextUserId,
                         !.emailVerificationTokenExpiry = now + 1]}
          /\ nextUserId' = nextUserId + 1
          /\ RespondAuth(p, proc[p], 201, {})
  /\ UNCHANGED <<appliedJobs, docVersion, jobs, applications, nextJobId,
                 nextApplicationId, now, pendingClose, mongo>>

RegisterStep(p) ==
  \/ RegisterFindJobSeeker(p)
  \/ RegisterFindEmployer(p)
  \/ RegisterCreate(p)

\* the body is read; username and password are required; a TypeError of
\* username.toLowerCase reaches the catch, which answers 500
LoginBegin(p, usernames, passwords, roles) ==
  /\ Free(p)
  /\ \E username \in usernames, password \in passwords, role \in roles :
       LET r == [Idle EXCEPT !.kind = "login",
                   !.body = [NoBody EXCEPT !.username = username,
                                           !.password = password,
                                           !.role = role]] IN
       IF ~Truthy(username) \/ ~Truthy(password) THEN RespondAuth(p, r, 400, {})
       ELSE IF ~IsString(username) THEN RespondAuth(p, r, 500, {})
       ELSE Goto(p, [r EXCEPT !.pc = "findUser"])
  /\ UNCHANGED <<db, nextJobId, nextApplicationId, nextUserId, now, pendingClose, mongo>>

\* Model.findOne({username: usernameLower})
FindByUsername(coll, username) == {u \in coll : u.username = username}

\* the first findOne: in the collection of the role, or with another role in
\* the job seekers and, when none is found, next in the employers
LoginFindUser(p) ==
  /\ At(p, "login", "findUser")
  /\ LET role == proc[p].body.role
         user == FindByUsername(IF role = "employer" THEN Employers ELSE JobSeekers,
                                UsernameLower(proc[p])) IN
     IF user # {} THEN Goto(p, [proc[p] EXCEPT !.pc = "verify", !.found = {TheDoc(user)}])
     ELSE IF role \in {"job-seeker", "employer"} THEN RespondAuth(p, proc[p], 401, {})
     ELSE Goto(p, [proc[p] EXCEPT !.pc = "findEmployer"])
  /\ UNCHANGED <<db, nextJobId, nextApplicationId, nextUserId, now, pendingClose, mongo>>

\* Employer.findOne({username: usernameLower}) when no role was given
LoginFindEmployer(p) ==
  /\ At(p, "login", "findEmployer")
  /\ LET user == FindByUsername(Employers, UsernameLower(proc[p])) IN
     IF user # {} THEN Goto(p, [proc[p] EXCEPT !.pc = "verify", !.found = {TheDoc(user)}])
     ELSE RespondAuth(p, proc[p], 401, {})
  /\ UNCHANGED <<db, nextJobId, nextApplicationId, nextUserId, now, pendingClose, mongo>>

\* verifyPassword, which throws for a password that is not a string (500);
\* then createToken and the auth_token cookie of the 200 answer
LoginVerify(p) ==
  /\ At(p, "login", "verify")
  /\ LET user == TheDoc(proc[p].found) IN
     IF ~IsString(proc[p].body.password) THEN RespondAuth(p, proc[p], 500, {})
     ELSE IF ~VerifyPassword(proc[p].body.password.s, user.passwordHash)
       THEN RespondAuth(p, proc[p], 401, {})
     ELSE RespondAuth(p, proc[p], 200, {CreateToken(user)})
  /\ UNCHANGED <<db, nextJobId, nextApplicationId, nextUserId, now, pendingClose, mongo>>

LoginStep(p) ==
  \/ LoginFindUser(p)
  \/ LoginFindEmployer(p)
  \/ LoginVerify(p)

\* the database before the first registration
InitAuth ==
  /\ users = {}
  /\ appliedJobs = [u \in UserIds |-> <<>>]
  /\ docVersion = [u \in UserIds |-> 0]
  /\ jobs = {}
  /\ applications = {}
  /\ nextJobId = 1
  /\ nextApplicationId = 1
  /\ nextUserId = 1
  /\ now = 0
  /\ pendingClose = {}
  /\ mongo = NotConnected
  /\ proc = [p \in Procs |-> Idle]

\* the bodies of the register and login requests
UsernameInputs == {Str("Alice"), Str("carol"), Absent, NotAString}
EmailInputs == {Str("Alice@Mail "), Str("carol@mail"), Str("nomail"), Absent}
RegisterPasswords == {Str("secret1"), Str("short"), Absent, NotAString}
LoginPasswords == {Str("secret1"), Str("secret2"), Absent, NotAString}
RegisterRoles == {"job-seeker", "employer", "admin"}
LoginRoles == {"job-seeker", "employer", ""}

NextAuth ==
  \/ AllFree /\ RegisterBegin(1, UsernameInputs, EmailInputs, RegisterPasswords, RegisterRoles)
  \/ AllFree /\ LoginBegin(1, UsernameInputs, LoginPasswords, LoginRoles)
  \/ RegisterStep(1)
  \/ LoginStep(1)

SpecAuth == InitAuth /\ [][NextAuth]_vars

\* a step of the register request in slot p
RegisterActs(p) == proc'[p].kind = "register" /\ proc'[p] # proc[p]

\* some user document holds the username, compared in lower case, or the
\* email of the body
Held(body) ==
  \E u \in users :
    \/ IsString(body.username) /\ u.username = ToLowerCase(body.username.s)
    \/ IsString(body.email) /\ u.email = Trim(ToLowerCase(body.email.s))

\* the body passes the checks the handler makes before it looks for users
WellFormed(body) ==
  /\ Truthy(body.username) /\ IsString(body.username)
  /\ Truthy(body.password) /\ ~TooShort(body.password)
  /\ body.names
  /\ IsString(body.email) /\ IncludesAt(body.email.s)
  /\ body.role \in {"job-seeker", "employer"}

Named(body) ==
  {u \in users :
     /\ IsString(body.username) /\ u.username = ToLowerCase(body.username.s)
     /\ body.role \in {"job-seeker", "employer"} => u.role = body.role}

\* the password of the body matches the stored hash of a named user
Matches(body) ==
  \E u \in Named(body) :
    IsString(body.password) /\ u.passwordHash = HashPassword(body.password.s)

-----------------------------------------------------------------------------
(* PATCH /api/job-seeker/profile, /api/employer/profile, /api/user/profile *)

\* String(value).trim() of a field, '' when the field is absent
TrimmedOrEmpty(v) == IF v.t = "undefined" THEN "" ELSE Trim(v.s)

\* token and role checks of PATCH /api/job-seeker/profile
JobSeekerProfileBegin(p, toks) ==
  /\ Free(p)
  /\ \E tok \in toks :
       LET r == [Idle EXCEPT !.kind = "jobSeekerProfile", !.tok = tok] IN
       IF AuthCheck(tok, "job-seeker") # 0
         THEN Goto(p, Finish(r, AuthCheck(tok, "job-seeker")))
         ELSE Goto(p, [r EXCEPT !.pc = "findExisting"])
  /\ UNCHANGED <<db, nextJobId, nextApplicationId, nextUserId, now, pendingClose, mongo>>

\* JobSeeker.findById inside retryOperation: a profile that stays missing
\* is answered 404 after the attempts; then the fields of the body
JobSeekerProfileFind(p, firstNames, lastNames, emails) ==
  /\ At(p, "jobSeekerProfile", "findExisting")
  /\ IF FindById(JobSeekers, proc[p].tok.uid) = {} THEN Respond(p, 404)
     ELSE \E fn \in firstNames, ln \in lastNames, em \in emails :
       Goto(p, [proc[p] EXCEPT !.pc = "update",
                  !.body = [NoBody EXCEPT !.firstName = fn, !.lastName = ln,
                                          !.email = em]])
  /\ UNCHANGED <<db, nextJobId, nextApplicationId, nextUserId, now, pendingClose, mongo>>

\* the required validators of firstName and lastName refuse ''
NamesValid(firstName, lastName) == firstName # "" /\ lastName # ""

\* JobSeeker.findByIdAndUpdate(id, {$set: updateFields}, {runValidators:
\* true}); a ValidationError is rethrown by retryOperation at once and the
\* catch answers 500; a document that is gone is answered 500 too
JobSeekerProfileUpdate(p) ==
  /\ At(p, "jobSeekerProfile", "update")
  /\ LET found == FindById(JobSeekers, proc[p].tok.uid)
         firstName == TrimmedOrEmpty(proc[p].body.firstName)
         lastName == TrimmedOrEmpty(proc[p].body.lastName)
         email == ToLowerCase(TrimmedOrEmpty(proc[p].body.email)) IN
     IF found = {} \/ ~NamesValid(firstName, lastName)
       THEN /\ Respond(p, 500)
            /\ UNCHANGED users
       ELSE /\ users' = Replace(users, TheDoc(found),
                 [TheDoc(found) EXCEPT !.firstName = firstName,
                                       !.lastName = lastName,
                                       !.email = email])
            /\ Respond(p, 200)
  /\ UNCHANGED <<appliedJobs, docVersion, jobs, applications, nextJobId,
                 nextApplicationId, nextUserId, now, pendingClose, mongo>>

\* token and role checks of PATCH /api/employer/profile
EmployerProfileBegin(p, toks) ==
  /\ Free(p)
  /\ \E tok \in toks :
       LET r == [Idle EXCEPT !.kind = "employerProfile", !.tok = tok] IN
       IF AuthCheck(tok, "employer") # 0
         THEN Goto(p, Finish(r, AuthCheck(tok, "employer")))
         ELSE Goto(p, [r EXCEPT !.pc = "findExisting"])
  /\ UNCHANGED <<db, nextJobId, nextApplicationId, nextUserId, now, pendingClose, mongo>>

\* Employer.findById inside retryOperation, then the fields of the body
EmployerProfileFind(p, emails) ==
  /\ At(p, "employerProfile", "findExisting")
  /\ IF FindById(Employers, proc[p].tok.uid) = {} THEN Respond(p, 404)
     ELSE \E em \in emails :
       Goto(p, [proc[p] EXCEPT !.pc = "update",
                               !.body = [NoBody EXCEPT !.email = em]])
  /\ UNCHANGED <<db, nextJobId, nextApplicationId, nextUserId, now, pendingClose, mongo>>

\* Employer.findByIdAndUpdate(id, {$set: updateFields}, {runValidators: true})
\* of the company fields, of which the model keeps the email
EmployerProfileUpdate(p) ==
  /\ At(p, "employerProfile", "update")
  /\ LET found == FindById(Employers, proc[p].tok.uid) IN
     IF found = {}
       THEN /\ Respond(p, 500)
            /\ UNCHANGED users
       ELSE /\ users' = Replace(users, TheDoc(found),
                 [TheDoc(found) EXCEPT
                    !.email = ToLowerCase(TrimmedOrEmpty(proc[p].body.email))])
            /\ Respond(p, 200)
  /\ UNCHANGED <<appliedJobs, docVersion, jobs, applications, nextJobId,
                 nextApplicationId, nextUserId, now, pendingClose, mongo>>

\* the token check of PATCH /api/user/profile, which admits both roles, then
\* the fields of the body
UserProfileBegin(p, toks, firstNames, lastNames) ==
  /\ Free(p)
  /\ \E tok \in toks :
       LET r == [Idle EXCEPT !.kind = "userProfile", !.tok = tok] IN
       IF ~tok.present \/ ~tok.valid THEN Goto(p, Finish(r, 401))
       ELSE \E fn \in firstNames, ln \in lastNames :
         Goto(p, [r EXCEPT !.pc = "update",
                    !.body = [NoBody EXCEPT !.firstName = fn, !.lastName = ln]])
  /\ UNCHANGED <<db, nextJobId, nextApplicationId, nextUserId, now, pendingClose, mongo>>

\* a name of the update: the trimmed field when the body has it, else the
\* stored one
NameAfter(v, stored) == IF v.t = "undefined" THEN stored ELSE Trim(v.s)

\* Model.findByIdAndUpdate(id, {$set: updateFields}, {runValidators: true})
\* in the collection of the token's role; a ValidationError is answered 500
\* by the catch, a missing user 404
UserProfileUpdate(p) ==
  /\ At(p, "userProfile", "update")
  /\ LET found == {u \in FindById(users, proc[p].tok.uid) : u.role = proc[p].tok.role}
         firstName == NameAfter(proc[p].body.firstName, TheDoc(found).firstName)
         lastName == NameAfter(proc[p].body.lastName, TheDoc(found).lastName) IN
     IF found # {} /\ NamesValid(firstName, lastName)
       THEN /\ users' = Replace(users, TheDoc(found),
                 [TheDoc(found) EXCEPT !.firstName = firstName,
                                       !.lastName = lastName])
            /\ Respond(p, 200)
       ELSE /\ Respond(p, IF found = {} THEN 404 ELSE 500)
            /\ UNCHANGED users
  /\ UNCHANGED <<appliedJobs, docVersion, jobs, applications, nextJobId,
                 nextApplicationId, nextUserId, now, pendingClose, mongo>>

-----------------------------------------------------------------------------
(* PATCH /api/user/settings : a user changes username or password *)

\* the password part of the handler up to verifyPassword, reached once the
\* username part is done: r is the request with its updates in fields
SettingsPasswordPart(p, r) ==
  LET b == r.body IN
  IF ~Truthy(b.newPassword)
    THEN IF r.fields = {} THEN RespondAuth(p, r, 400, {})
         ELSE Goto(p, [r EXCEPT !.pc = "save"])
  ELSE IF ~Truthy(b.currentPassword) THEN RespondAuth(p, r, 400, {})
  ELSE IF ~IsString(b.newPassword) \/ TooShort(b.newPassword)
    THEN RespondAuth(p, r, 400, {})
  ELSE IF Truthy(b.confirmPassword) /\ b.newPassword # b.confirmPassword
    THEN RespondAuth(p, r, 400, {})
  ELSE Goto(p, [r EXCEPT !.pc = "verify"])

\* the body is read and checked for an update before the token is looked at;
\* then the token checks, which admit both roles
SettingsBegin(p, toks, usernames, currentPasswords, newPasswords, confirmPasswords) ==
  /\ Free(p)
  /\ \E tok \in toks, username \in usernames, cur \in currentPasswords,
        new \in newPasswords, conf \in confirmPasswords :
       LET r == [Idle EXCEPT !.kind = "settings", !.tok = tok,
                   !.body = [NoBody EXCEPT !.username = username,
                                           !.currentPassword = cur,
                                           !.newPassword = new,
                                           !.confirmPassword = conf]] IN
       IF ~Truthy(username) /\ ~Truthy(new) THEN RespondAuth(p, r, 400, {})
       ELSE IF ~tok.present \/ ~tok.valid THEN RespondAuth(p, r, 401, {})
       ELSE Goto(p, [r EXCEPT !.pc = "findUser"])
  /\ UNCHANGED <<db, nextJobId, nextApplicationId, nextUserId, now, pendingClose, mongo>>

\* username.trim().toLowerCase()
SettingsUsername(r) == ToLowerCase(Trim(r.body.username.s))

\* Model.findById(userId) in the collection of the token's role, then the
\* username part up to its first lookup
SettingsFindUser(p) ==
  /\ At(p, "settings", "findUser")
  /\ LET r == proc[p]
         user == {u \in FindById(users, r.tok.uid) :
                    (u.role = "job-seeker") = (r.tok.role = "job-seeker")} IN
     IF user = {} THEN RespondAuth(p, r, 404, {})
     ELSE IF Truthy(r.body.username) /\ IsString(r.body.username)
       THEN IF SettingsUsername(r) = "" THEN RespondAuth(p, r, 400, {})
            ELSE IF SettingsUsername(r) # TheDoc(user).username
              THEN Goto(p, [r EXCEPT !.pc = "findJobSeeker", !.found = user])
            ELSE SettingsPasswordPart(p, [r EXCEPT !.found = user])
     ELSE SettingsPasswordPart(p, [r EXCEPT !.found = user])
  /\ UNCHANGED <<db, nextJobId, nextApplicationId, nextUserId, now, pendingClose, mongo>>

\* JobSeeker.findOne({username: trimmed}); todo keeps the ids found
SettingsFindJobSeeker(p) ==
  /\ At(p, "settings", "findJobSeeker")
  /\ Goto(p, [proc[p] EXCEPT !.pc = "findEmployer",
        !.todo = IF FindByUsername(JobSeekers, SettingsUsername(proc[p])) = {}
                   THEN <<>>
                   ELSE <<TheDoc(FindByUsername(JobSeekers, SettingsUsername(proc[p]))).id>>])
  /\ UNCHANGED <<db, nextJobId, nextApplicationId, nextUserId, now, pendingClose, mongo>>

\* Employer.findOne({username: trimmed}); a holder other than the user is
\* answered 409, else updates.username is set and the password part follows
SettingsFindEmployer(p) ==
  /\ At(p, "settings", "findEmployer")
  /\ LET r == proc[p]
         self == TheDoc(r.found).id
         existingEmployer == FindByUsername(Employers, SettingsUsername(r))
         foundExisting ==
           \/ \E i \in 1..Len(r.todo) : r.todo[i] # self
           \/ \E u \in existingEmployer : u.id # self IN
     IF foundExisting THEN RespondAuth(p, r, 409, {})
     ELSE SettingsPasswordPart(p, [r EXCEPT !.todo = <<>>, !.fields = {"username"}])
  /\ UNCHANGED <<db, nextJobId, nextApplicationId, nextUserId, now, pendingClose, mongo>>

\* mutant: the current password is not checked
SettingsVerify_Mut(p) ==
  /\ At(p, "settings", "verify")
  /\ Goto(p, [proc[p] EXCEPT !.pc = "save", !.fields = @ \cup {"passwordHash"}])
  /\ UNCHANGED <<db, nextJobId, nextApplicationId, nextUserId, now, pendingClose, mongo>>

\* verifyPassword(currentPassword, user.passwordHash), which throws for a
\* password that is not a string (500); a wrong password is answered 403;
\* then hashPassword(newPassword)
SettingsVerify(p) ==
  /\ At(p, "settings", "verify")
  /\ LET r == proc[p] IN
     IF ~IsString(r.body.currentPassword) THEN RespondAuth(p, r, 500, {})
     ELSE IF ~VerifyPassword(r.body.currentPassword.s, TheDoc(r.found).passwordHash)
       THEN RespondAuth(p, r, 403, {})
     ELSE Goto(p, [r EXCEPT !.pc = "save", !.fields = @ \cup {"passwordHash"}])
  /\ UNCHANGED <<db, nextJobId, nextApplicationId, nextUserId, now, pendingClose, mongo>>

\* the unique index of username seen by an update of the document id
UsernameIndexAllowsUpdate(id, role, username) ==
  \A u \in users : (u.role = role /\ u.id # id) => u.username # username

\* Object.assign(user, updates) and user.save(): the modified paths are
\* written to the stored document; E11000 or a document that is gone is
\* answered 500; a changed username gets a new auth_token cookie
SettingsSave(p) ==
  /\ At(p, "settings", "save")
  /\ LET r == proc[p]
         stored == FindById(users, TheDoc(r.found).id)
         username == IF "username" \in r.fields
                       THEN Trim(ToLowerCase(SettingsUsername(r)))
                       ELSE TheDoc(stored).username
         after == [TheDoc(stored) EXCEPT
                     !.username = username,
                     !.passwordHash = IF "passwordHash" \in r.fields
                                        THEN HashPassword(r.body.newPassword.s)
                                        ELSE @] IN
     IF stored = {} \/ ("username" \in r.fields /\
                        ~UsernameIndexAllowsUpdate(TheDoc(r.found).id,
                                                   TheDoc(r.found).role, username))
       THEN /\ RespondAuth(p, r, 500, {})
            /\ UNCHANGED users
       ELSE /\ users' = Replace(users, TheDoc(stored), after)
            /\ RespondAuth(p, r, 200,
                 IF "username" \in r.fields THEN {CreateToken(after)} ELSE {})
  /\ UNCHANGED <<appliedJobs, docVersion, jobs, applications, nextJobId,
                 nextApplicationId, nextUserId, now, pendingClose, mongo>>

-----------------------------------------------------------------------------
(* Every data-changing request, with and without a passing token *)

\* the cookies of the callers: none, one that fails verification, and the
\* tokens of job seeker 1 and employer 3
GuardTokens ==
  {NoToken, BadToken} \cup
  {CreateToken(u) : u \in {v \in RegisteredUsers : v.id \in {1, 3}}}

NextGuard ==
  \/ AllFree /\ PostJobBegin(1, GuardTokens)
  \/ AllFree /\ DeleteJobBegin(1, GuardTokens)
  \/ AllFree /\ ApplyBegin(1, GuardTokens)
  \/ AllFree /\ PatchBegin(1, GuardTokens)
  \/ AllFree /\ RemoveBegin(1, GuardTokens)
  \/ AllFree /\ JobSeekerProfileBegin(1, GuardTokens)
  \/ AllFree /\ EmployerProfileBegin(1, GuardTokens)
  \/ AllFree /\ UserProfileBegin(1, GuardTokens, {Str("Ann")}, {Absent})
  \/ AllFree /\ SettingsBegin(1, GuardTokens, {Absent, Str("Zed ")}, {Absent},
                              {Absent}, {Absent})
  \/ PostJobStep(1, {""}, {0})
  \/ DeleteJobStep(1)
  \/ ApplyStep(1)
  \/ PatchStep(1, {"Reviewed"}, {JUndefined})
  \/ RemoveStep(1)
  \/ JobSeekerProfileFind(1, {Str("Ann"), Absent}, {Str("Last")}, {Str("alice@mail")})
  \/ JobSeekerProfileUpdate(1)
  \/ EmployerProfileFind(1, {Absent})
  \/ EmployerProfileUpdate(1)
  \/ UserProfileUpdate(1)
  \/ SettingsFindUser(1)
  \/ SettingsFindJobSeeker(1)
  \/ SettingsFindEmployer(1)
  \/ SettingsSave(1)

SpecGuard == Init /\ [][NextGuard]_vars

\* the role a data-changing route admits; "any" for the routes of both roles
RouteRole(kind) ==
  CASE kind \in {"postJob", "deleteJob", "patch", "employerProfile"} -> "employer"
    [] kind \in {"apply", "remove", "jobSeekerProfile"} -> "job-seeker"
    [] kind \in {"userProfile", "settings"} -> "any"
    [] OTHER -> "none"

\* the answer the claim gives a request: 401 without a cookie or with one
\* that fails verification, 403 with a token of a role the route does not
\* admit, 0 when it says nothing
Refusal(r) ==
  IF RouteRole(r.kind) = "none" THEN 0
  ELSE IF ~r.tok.present \/ ~r.tok.valid THEN 401
  ELSE IF RouteRole(r.kind) # "any" /\ r.tok.role # RouteRole(r.kind) THEN 403
  ELSE 0

\* slot p takes a step of a request the claim refuses
RefusedActs(p) == proc'[p] # proc[p] /\ Refusal(proc'[p]) # 0

-----------------------------------------------------------------------------
(* GET /api/applications?jobId=J : the applications of a job *)

\* the token check, which asks for no role, and the jobId of the query;
\* jobId 0 stands for a missing one
ListApplicationsBegin(p, toks) ==
  /\ Free(p)
  /\ \E tok \in toks, j \in 0..MaxJobs :
       LET r == [Idle EXCEPT !.kind = "listApplications", !.tok = tok, !.job = j] IN
       IF ~tok.present \/ ~tok.valid THEN Goto(p, Finish(r, 401))
       ELSE IF j = 0 THEN Goto(p, Finish(r, 400))
       ELSE Goto(p, [r EXCEPT !.pc = "findJob"])
  /\ UNCHANGED <<db, nextJobId, nextApplicationId, nextUserId, now, pendingClose, mongo>>

\* Job.findById and, if (decoded.role === 'employer'), the ownership check
ListApplicationsFindJob(p) ==
  /\ At(p, "listApplications", "findJob")
  /\ LET found == FindById(jobs, proc[p].job) IN
     IF found = {} THEN Respond(p, 404)
     ELSE IF proc[p].tok.role = "employer" /\ TheDoc(found).employerId # proc[p].tok.uid
       THEN Respond(p, 403)
     ELSE Goto(p, [proc[p] EXCEPT !.pc = "find"])
  /\ UNCHANGED <<db, nextJobId, nextApplicationId, nextUserId, now, pendingClose, mongo>>

\* Application.find({jobId}) and the 200 answer with the applications
ListApplicationsFind(p) ==
  /\ At(p, "listApplications", "find")
  /\ RespondJobs(p, {[id |-> a.id, jobId |-> a.jobId, applicantId |-> a.jobSeekerId,
                      status |-> a.status] :
                       a \in {b \in applications : b.jobId = proc[p].job}})
  /\ UNCHANGED <<db, nextJobId, nextApplicationId, nextUserId, now, pendingClose, mongo>>

NextReadApps ==
  \/ AllFree /\ PostJobBegin(1, UserTokens)
  \/ AllFree /\ ApplyBegin(1, UserTokens)
  \/ AllFree /\ ListApplicationsBegin(1, UserTokens \cup {NoToken})
  \/ PostJobStep(1, {""}, {0})
  \/ ApplyStep(1)
  \/ ListApplicationsFindJob(1)
  \/ ListApplicationsFind(1)

SpecReadApps == Init /\ [][NextReadApps]_vars

\* the caller of request r is the employer who owns the job of r
OwnsJob(r) ==
  /\ r.tok.present /\ r.tok.valid /\ r.tok.role = "employer"
  /\ \E j \in jobs : j.id = r.job /\ j.employerId = r.tok.uid

\* C12: GET /api/applications?jobId=J gives application data to the owner of
\* J only; every other caller is denied and gets none
C12_OnlyOwnerReadsApplications ==
  \A p \in Procs :
    (proc[p].kind = "listApplications" /\ proc[p].pc = "done" /\ ~OwnsJob(proc[p])) =>
      proc[p].resp # 200 /\ proc[p].out = {}

-----------------------------------------------------------------------------
(* middleware.ts : the edge middleware in front of pages and API routes *)

\* A pathname is a sequence of pieces whose concatenation is the path:
\* <<"/settings", "x">> is "/settingsx".  No piece is part of another one, so
\* String.prototype.startsWith is the prefix order of these sequences.
PathPieces ==
  {"/job-seeker", "/employer", "/profile", "/api", "/user", "/settings",
   "/auth", "/login", "/register", "/_next/static", "x"}

MaxPath == 3

Pathnames ==
  {<<"/">>} \cup
  {s \in UNION {[1..n -> PathPieces] : n \in 1..MaxPath} : s[1] # "x"}

StartsWith(s, prefix) ==
  Len(prefix) <= Len(s) /\ \A i \in 1..Len(prefix) : s[i] = prefix[i]

\* String.prototype.includes for one piece
Includes(s, piece) == \E i \in 1..Len(s) : s[i] = piece

protectedRoutes ==
  {<<"/job-seeker", "/profile">>, <<"/employer", "/profile">>,
   <<"/api", "/user", "/profile">>, <<"/settings">>,
   <<"/api", "/user", "/settings">>}

publicRoutes ==
  {<<"/auth", "/login", "/job-seeker">>, <<"/auth", "/login", "/employer">>,
   <<"/auth", "/register", "/job-seeker">>, <<"/auth", "/register", "/employer">>,
   <<"/">>}

\* config.matcher: the middleware does not run for static assets
Matched(pathname) == ~StartsWith(pathname, <<"/_next/static">>)

\* values of the auth_token cookie: none, an empty one, garbage, a signed token
CookieValues == {Absent, Str(""), Str("garbage"), Str("jwt")}

\* the login page an unauthenticated request is sent to
LoginUrl_Mut(pathname) == "/auth/login/employer"

LoginUrl(pathname) ==
  IF StartsWith(pathname, <<"/job-seeker">>) THEN "/auth/login/job-seeker"
  ELSE "/auth/login/employer"

\* middleware(request): "" stands for NextResponse.next(), a path for
\* NextResponse.redirect to it
MiddlewareResponse(pathname, token) ==
  LET isProtectedRoute == \E route \in protectedRoutes : StartsWith(pathname, route)
      isPublicRoute == pathname \in publicRoutes
  IN IF ~Matched(pathname) THEN ""
     ELSE IF isProtectedRoute THEN
       IF ~Truthy(token) THEN LoginUrl(pathname) ELSE ""
     ELSE IF /\ Truthy(token) /\ isPublicRoute
             /\ \/ StartsWith(pathname, <<"/auth", "/login">>)
                \/ StartsWith(pathname, <<"/auth", "/register">>)
       THEN IF Includes(pathname, "/job-seeker") THEN "/job-seeker" ELSE "/employer"
     ELSE ""

Middleware(p) ==
  /\ At(p, "request", "middleware")
  /\ Goto(p, [proc[p] EXCEPT !.pc = "done",
                             !.redirect = MiddlewareResponse(proc[p].path, proc[p].cookie)])
  /\ UNCHANGED <<db, nextJobId, nextApplicationId, nextUserId, now, pendingClose, mongo>>

\* one request with any pathname and any cookie is waiting at the middleware
InitMiddleware ==
  /\ users = RegisteredUsers
  /\ appliedJobs = [u \in UserIds |-> <<>>]
  /\ docVersion = [u \in UserIds |-> 0]
  /\ jobs = {}
  /\ applications = {}
  /\ nextJobId = 1
  /\ nextApplicationId = 1
  /\ nextUserId = MaxUsers + 1
  /\ now = 0
  /\ pendingClose = {}
  /\ mongo = NotConnected
  /\ \E pathname \in Pathnames, token \in CookieValues :
       proc = [p \in Procs |->
                 IF p = 1 THEN [Idle EXCEPT !.kind = "request", !.pc = "middleware",
                                            !.path = pathname, !.cookie = token]
                 ELSE Idle]

NextMiddleware == Middleware(1)

SpecMiddleware == InitMiddleware /\ [][NextMiddleware]_vars

LoginPages == {"/auth/login/job-seeker", "/auth/login/employer"}

\* the protected prefixes as the specification lists them
Protected(r) ==
  \/ StartsWith(r.path, <<"/job-seeker", "/profile">>)
  \/ StartsWith(r.path, <<"/employer", "/profile">>)
  \/ StartsWith(r.path, <<"/api", "/user", "/profile">>)
  \/ StartsWith(r.path, <<"/settings">>)
  \/ StartsWith(r.path, <<"/api", "/user", "/settings">>)

Passed(p) == proc[p].kind = "request" /\ proc[p].pc = "done"

\* the parts of C13 that do not depend on the value of the cookie
RedirectsOfMiddleware(p) ==
  /\ (Protected(proc[p]) /\ proc[p].cookie = Absent) =>
       proc[p].redirect = IF proc[p].path[1] = "/job-seeker"
                            THEN "/auth/login/job-seeker"
                            ELSE "/auth/login/employer"
  /\ ~Protected(proc[p]) => proc[p].redirect \notin LoginPages

-----------------------------------------------------------------------------
(* GET /api/auth/verify-email?token=T *)

\* the token of the query; 0 stands for a missing or empty one
VerifyEmailBegin(p, tokens) ==
  /\ Free(p)
  /\ \E token \in tokens :
       LET r == [Idle EXCEPT !.kind = "verifyEmail", !.app = token] IN
       IF token = 0 THEN Goto(p, Finish(r, 400))
       ELSE Goto(p, [r EXCEPT !.pc = "findJobSeeker"])
  /\ UNCHANGED <<db, nextJobId, nextApplicationId, nextUserId, now, pendingClose, mongo>>

\* JobSeeker.findOne({emailVerificationToken: token})
VerifyEmailFindJobSeeker(p) ==
  /\ At(p, "verifyEmail", "findJobSeeker")
  /\ LET found == {u \in JobSeekers : u.emailVerificationToken = proc[p].app} IN
     IF found # {}
       THEN \E u \in found : Goto(p, [proc[p] EXCEPT !.pc = "save", !.found = {u}])
       ELSE Goto(p, [proc[p] EXCEPT !.pc = "findEmployer"])
  /\ UNCHANGED <<db, nextJobId, nextApplicationId, nextUserId, now, pendingClose, mongo>>

\* Employer.findOne({emailVerificationToken: token})
VerifyEmailFindEmployer(p) ==
  /\ At(p, "verifyEmail", "findEmployer")
  /\ LET found == {u \in Employers : u.emailVerificationToken = proc[p].app} IN
     IF found # {}
       THEN \E u \in found : Goto(p, [proc[p] EXCEPT !.pc = "save", !.found = {u}])
       ELSE Respond(p, 400)
  /\ UNCHANGED <<db, nextJobId, nextApplicationId, nextUserId, now, pendingClose, mongo>>

\* mutant: a token never expires
IsTokenExpired_Mut(expiryDate, t) == FALSE

\* isTokenExpired of lib/token-utils: no expiry date (0) means expired
IsTokenExpired(expiryDate, t) ==
  IF expiryDate = 0 THEN TRUE ELSE t > expiryDate

\* the expiry check, the already-verified answer, and user.save()
VerifyEmailSave(p) ==
  /\ At(p, "verifyEmail", "save")
  /\ LET user == TheDoc(proc[p].found) IN
       IF IsTokenExpired(user.emailVerificationTokenExpiry, now)
         THEN Respond(p, 400) /\ UNCHANGED users
       ELSE IF user.isEmailVerified THEN Respond(p, 200) /\ UNCHANGED users
       ELSE /\ users' = {IF u.id = user.id
                           THEN [u EXCEPT !.isEmailVerified = TRUE,
                                          !.emailVerificationToken = 0,
                                          !.emailVerificationTokenExpiry = 0]
                           ELSE u : u \in users}
            /\ Respond(p, 200)
  /\ UNCHANGED <<appliedJobs, docVersion, jobs, applications, nextJobId,
                 nextApplicationId, nextUserId, now, pendingClose, mongo>>

VerifyEmailStep(p) ==
  \/ VerifyEmailFindJobSeeker(p)
  \/ VerifyEmailFindEmployer(p)
  \/ VerifyEmailSave(p)

VerifyUsernames == {Str("Alice"), Str("carol")}
VerifyEmails == {Str("Alice@Mail "), Str("carol@mail")}
VerifyPasswords == {Str("secret1")}
VerifyRoles == {"job-seeker", "employer"}

\* registration, verification of the email and login, one request at a time
NextVerify ==
  \/ AllFree /\ RegisterBegin(1, VerifyUsernames, VerifyEmails, VerifyPasswords, VerifyRoles)
  \/ AllFree /\ VerifyEmailBegin(1, 0..MaxUsers)
  \/ AllFree /\ LoginBegin(1, VerifyUsernames, VerifyPasswords, LoginRoles)
  \/ RegisterStep(1)
  \/ VerifyEmailStep(1)
  \/ LoginStep(1)

SpecVerify == InitAuth /\ [][NextVerify]_vars

\* C14: a user whose email is not verified cannot log in: a registration sets
\* no auth_token cookie and leaves isEmailVerified false, and a login answers
\* with an auth_token cookie only for a user whose isEmailVerified is true
C14_UnverifiedCannotLogIn ==
  \A p \in Procs :
    /\ (proc[p].kind = "register" /\ proc[p].pc = "done") => proc[p].out = {}
    /\ (proc[p].kind = "login" /\ proc[p].pc = "done" /\ proc[p].out # {}) =>
         \A u \in users : CreateToken(u) \in proc[p].out => u.isEmailVerified

-----------------------------------------------------------------------------
(* POST /api/auth/forgot-password *)

ForgotMessage == "If an account with that username exists, a new password has been emailed"

\* generateTemporaryPassword(12)
TemporaryPassword == "temporary"

\* mutant: an unknown username is answered 404
ForgotAnswer_Mut(p, place) ==
  Goto(p, [Finish(proc[p], IF place = "noUser" THEN 404 ELSE 200)
             EXCEPT !.body = proc[p].body, !.out = {ForgotMessage}, !.at = place])

\* the 200 answer with the message; at is the place the request left from
ForgotAnswer(p, place) ==
  Goto(p, [Finish(proc[p], 200) EXCEPT !.body = proc[p].body,
                                       !.out = {ForgotMessage}, !.at = place])

\* await dbConnect() stands before the try block: when it rejects, the handler
\* rejects and the framework answers 500.  Inside the try block request.json()
\* may throw and the username is checked.
ForgotBegin(p, usernames) ==
  /\ Free(p)
  /\ \E username \in usernames, connected \in BOOLEAN, parsed \in BOOLEAN :
       LET r == [Idle EXCEPT !.kind = "forgotPassword",
                             !.body = [NoBody EXCEPT !.username = username]] IN
       IF ~connected
         THEN Goto(p, [Finish(r, 500) EXCEPT !.body = r.body, !.at = "dbConnect"])
       ELSE IF ~parsed
         THEN Goto(p, [Finish(r, 200) EXCEPT !.out = {ForgotMessage}, !.at = "json"])
       ELSE IF ~Truthy(username) \/ ~IsString(username)
         THEN Goto(p, [Finish(r, 200) EXCEPT !.body = r.body,
                                             !.out = {ForgotMessage}, !.at = "validation"])
       ELSE Goto(p, [r EXCEPT !.pc = "findJobSeeker"])
  /\ UNCHANGED <<db, nextJobId, nextApplicationId, nextUserId, now, pendingClose, mongo>>

ForgotUsername(r) == Trim(ToLowerCase(r.body.username.s))

\* JobSeeker.findOne({username: usernameLower}), which may reject
ForgotFindJobSeeker(p) ==
  /\ At(p, "forgotPassword", "findJobSeeker")
  /\ \E fails \in BOOLEAN :
       LET found == FindByUsername(JobSeekers, ForgotUsername(proc[p])) IN
       IF fails THEN ForgotAnswer(p, "catch")
       ELSE IF found = {} THEN Goto(p, [proc[p] EXCEPT !.pc = "findEmployer"])
       ELSE \E u \in found : Goto(p, [proc[p] EXCEPT !.pc = "send", !.found = {u}])
  /\ UNCHANGED <<db, nextJobId, nextApplicationId, nextUserId, now, pendingClose, mongo>>

\* Employer.findOne({username: usernameLower}), which may reject
ForgotFindEmployer(p) ==
  /\ At(p, "forgotPassword", "findEmployer")
  /\ \E fails \in BOOLEAN :
       LET found == FindByUsername(Employers, ForgotUsername(proc[p])) IN
       IF fails THEN ForgotAnswer(p, "catch")
       ELSE IF found = {} THEN ForgotAnswer(p, "noUser")
       ELSE \E u \in found : Goto(p, [proc[p] EXCEPT !.pc = "send", !.found = {u}])
  /\ UNCHANGED <<db, nextJobId, nextApplicationId, nextUserId, now, pendingClose, mongo>>

\* if (user && user.email): sendNewPasswordEmail answers true or false or throws
ForgotSend(p) ==
  /\ At(p, "forgotPassword", "send")
  /\ IF TheDoc(proc[p].found).email = "" THEN ForgotAnswer(p, "noEmail")
     ELSE \E emailSent \in BOOLEAN :
       IF emailSent THEN Goto(p, [proc[p] EXCEPT !.pc = "save"])
       ELSE ForgotAnswer(p, "notSent")
  /\ UNCHANGED <<db, nextJobId, nextApplicationId, nextUserId, now, pendingClose, mongo>>

\* hashPassword and user.save(), which may reject
ForgotSave(p) ==
  /\ At(p, "forgotPassword", "save")
  /\ \E fails \in BOOLEAN :
       LET user == TheDoc(proc[p].found) IN
       IF fails \/ FindById(users, user.id) = {}
         THEN ForgotAnswer(p, "catch") /\ UNCHANGED users
         ELSE /\ users' = {IF u.id = user.id
                             THEN [u EXCEPT !.passwordHash = HashPassword(TemporaryPassword),
                                            !.passwordResetToken = 0,
                                            !.passwordResetTokenExpiry = 0]
                             ELSE u : u \in users}
              /\ ForgotAnswer(p, "saved")
  /\ UNCHANGED <<appliedJobs, docVersion, jobs, applications, nextJobId,
                 nextApplicationId, nextUserId, now, pendingClose, mongo>>

ForgotStep(p) ==
  \/ ForgotFindJobSeeker(p)
  \/ ForgotFindEmployer(p)
  \/ ForgotSend(p)
  \/ ForgotSave(p)

ForgotUsernames == {Str("Alice"), Str("acme"), Str("Zed "), Str(""), Absent, NotAString}

\* forgot-password requests, and the employer's profile update that can
\* empty the email of an employer
NextForgot ==
  \/ AllFree /\ ForgotBegin(1, ForgotUsernames)
  \/ AllFree /\ EmployerProfileBegin(1, {CreateToken(u) : u \in Employers})
  \/ ForgotStep(1)
  \/ EmployerProfileFind(1, {Absent, Str("hr@acme")})
  \/ EmployerProfileUpdate(1)

SpecForgot == Init /\ [][NextForgot]_vars

ForgotDone(p) == proc[p].kind = "forgotPassword" /\ proc[p].pc = "done"

-----------------------------------------------------------------------------
(* retryOperation of the profile routes *)

MaxRetries == 4

\* maxRetries: number = 3
DefaultMaxRetries == 3

\* what one call of operation() settles to: a result, or an error with the
\* name or the status the function looks at
Result == [name |-> "result", status |-> 0]
OperationErrors ==
  {[name |-> "ValidationError", status |-> 0], [name |-> "CastError", status |-> 0],
   [name |-> "Error", status |-> 401], [name |-> "Error", status |-> 403],
   [name |-> "Error", status |-> 404], [name |-> "MongoNetworkError", status |-> 0]}
Undefined == [name |-> "undefined", status |-> 0]

\* mutant: a CastError is retried
Rethrown_Mut(error) ==
  error.name = "ValidationError" \/ error.status = 401 \/ error.status = 403

\* the errors that are thrown on without another attempt
Rethrown(error) ==
  \/ error.name = "ValidationError" \/ error.name = "CastError"
  \/ error.status = 401 \/ error.status = 403

\* the locals of one call of retryOperation, and the outcomes of the calls
\* of operation() so far
RetryLocals(maxRetries) ==
  [maxRetries |-> maxRetries, attempt |-> 1, lastError |-> Undefined,
   outcomes |-> <<>>, returned |-> Undefined, thrown |-> Undefined]

\* the for statement tests attempt <= maxRetries; after the loop: throw lastError
RetryLoop(p, locals) ==
  IF locals.attempt <= locals.maxRetries
    THEN Goto(p, [proc[p] EXCEPT !.pc = "operation", !.retry = locals])
    ELSE Goto(p, [proc[p] EXCEPT !.pc = "threw",
                                 !.retry = [locals EXCEPT !.thrown = locals.lastError]])

RetryBegin(p) ==
  /\ At(p, "retryOperation", "called")
  /\ RetryLoop(p, proc[p].retry)
  /\ UNCHANGED <<db, nextJobId, nextApplicationId, nextUserId, now, pendingClose, mongo>>

\* return await operation(), and the catch block up to its await
RetryOperation(p) ==
  /\ At(p, "retryOperation", "operation")
  /\ \E outcome \in {Result} \cup OperationErrors :
       LET locals == [proc[p].retry EXCEPT !.outcomes = Append(@, outcome)] IN
       IF outcome = Result
         THEN Goto(p, [proc[p] EXCEPT !.pc = "returned",
                                      !.retry = [locals EXCEPT !.returned = outcome]])
       ELSE IF Rethrown(outcome)
         THEN Goto(p, [proc[p] EXCEPT !.pc = "threw",
                         !.retry = [locals EXCEPT !.lastError = outcome,
                                                  !.thrown = outcome]])
       ELSE IF locals.attempt < locals.maxRetries
         THEN Goto(p, [proc[p] EXCEPT !.pc = "backoff",
                         !.retry = [locals EXCEPT !.lastError = outcome]])
       ELSE RetryLoop(p, [locals EXCEPT !.lastError = outcome, !.attempt = @ + 1])
  /\ UNCHANGED <<db, nextJobId, nextApplicationId, nextUserId, now, pendingClose, mongo>>

\* the timer of setTimeout(resolve, delayMs * attempt) fires; attempt++
RetryBackoff(p) ==
  /\ At(p, "retryOperation", "backoff")
  /\ RetryLoop(p, [proc[p].retry EXCEPT !.attempt = @ + 1])
  /\ UNCHANGED <<db, nextJobId, nextApplicationId, nextUserId, now, pendingClose, mongo>>

\* retryOperation has been called with any maxRetries
InitRetry ==
  /\ users = RegisteredUsers
  /\ appliedJobs = [u \in UserIds |-> <<>>]
  /\ docVersion = [u \in UserIds |-> 0]
  /\ jobs = {}
  /\ applications = {}
  /\ nextJobId = 1
  /\ nextApplicationId = 1
  /\ nextUserId = MaxUsers + 1
  /\ now = 0
  /\ pendingClose = {}
  /\ mongo = NotConnected
  /\ \E maxRetries \in 0..MaxRetries :
       proc = [p \in Procs |->
                 IF p = 1 THEN [Idle EXCEPT !.kind = "retryOperation", !.pc = "called",
                                            !.retry = RetryLocals(maxRetries)]
                 ELSE Idle]

NextRetry ==
  \/ RetryBegin(1)
  \/ RetryOperation(1)
  \/ RetryBackoff(1)

SpecRetry == InitRetry /\ [][NextRetry]_vars

\* every call of operation() settles and every timer fires
SpecRetryLive == SpecRetry /\ WF_vars(NextRetry)

RetryEnded == proc[1].pc \in {"returned", "threw"}

NotRetried ==
  {e \in OperationErrors : e.name \in {"ValidationError", "CastError"} \/ e.status \in {401, 403}}

\* what C16 says of the calls made so far and of the way the function ended
RetryContract ==
  LET r == proc[1].retry
      calls == Len(r.outcomes) IN
  proc[1].kind = "retryOperation" =>
    /\ calls <= r.maxRetries
    /\ \A i \in 1..(calls - 1) : r.outcomes[i] \in OperationErrors \ NotRetried
    /\ proc[1].pc = "returned" =>
         r.outcomes[calls] = Result /\ r.returned = Result
    /\ proc[1].pc = "threw" =>
         IF calls = 0 THEN r.maxRetries = 0 /\ r.thrown = Undefined
         ELSE /\ r.thrown = r.outcomes[calls]
              /\ r.thrown \in OperationErrors
              /\ r.thrown \notin NotRetried => calls = r.maxRetries
    /\ (calls > 0 /\ r.outcomes[calls] \in NotRetried \cup {Result}) => RetryEnded

\* C16: retryOperation calls the operation at most maxRetries times and always
\* terminates: it returns the first successful result without calling again,
\* rethrows at once a ValidationError, a CastError or an error with status 401
\* or 403, and otherwise throws the error of the last of maxRetries attempts
C16_RetryBoundedAndTerminates ==
  /\ []RetryContract
  /\ [][RetryEnded => UNCHANGED proc]_vars
  /\ <>RetryEnded

\* three attempts failed with errors that are retried, and the last was thrown
C16_Witness ==
  /\ proc[1].kind = "retryOperation" /\ proc[1].pc = "threw"
  /\ proc[1].retry.maxRetries = DefaultMaxRetries
  /\ Len(proc[1].retry.outcomes) = DefaultMaxRetries
  /\ proc[1].retry.thrown = [name |-> "MongoNetworkError", status |-> 0]
  /\ proc[1].retry.outcomes[1] = [name |-> "Error", status |-> 404]

-----------------------------------------------------------------------------
(* lib/mongodb.ts : dbConnect and the cached connection *)

MaxCalls == 8
MaxConnects == 3

\* mutant: a pending promise is not reused
PromiseCached_Mut(cached) == cached.promise # 0 /\ cached.settled # "pending"

\* cached.promise is not null
PromiseCached(cached) == cached.promise # 0

\* dbConnect up to its await: the cached connection is returned, or the
\* cached promise is awaited, after mongoose.connect made it if there was none
DbConnectCall(p) ==
  /\ Free(p)
  /\ mongo.calls < MaxCalls
  /\ LET r == [Idle EXCEPT !.kind = "dbConnect"]
         called == [mongo EXCEPT !.calls = @ + 1] IN
     IF mongo.conn # 0
       THEN /\ Goto(p, [r EXCEPT !.pc = "done", !.resp = 200, !.out = {mongo.conn}])
            /\ mongo' = called
     ELSE IF ~PromiseCached(mongo)
       THEN /\ mongo.connects < MaxConnects
            /\ mongo' = [called EXCEPT !.connects = @ + 1, !.promise = mongo.connects + 1,
                                       !.settled = "pending"]
            /\ Goto(p, [r EXCEPT !.pc = "await", !.found = {mongo.connects + 1}])
     ELSE /\ mongo' = called
          /\ Goto(p, [r EXCEPT !.pc = "await", !.found = {mongo.promise}])
  /\ UNCHANGED <<db, nextJobId, nextApplicationId, nextUserId, now, pendingClose>>

\* the connection attempt of the cached promise ends: the promise is
\* fulfilled with the connection, or rejected
ConnectSettles ==
  /\ mongo.promise # 0 /\ mongo.settled = "pending"
  /\ \E outcome \in {"fulfilled", "rejected"} : mongo' = [mongo EXCEPT !.settled = outcome]
  /\ UNCHANGED <<db, nextJobId, nextApplicationId, nextUserId, now, pendingClose, proc>>

\* cached.conn = await cached.promise; return cached.conn.  A rejected
\* promise makes dbConnect throw, and stays in cached.promise.
DbConnectResume(p) ==
  /\ At(p, "dbConnect", "await")
  /\ proc[p].found = {mongo.promise} /\ mongo.settled # "pending"
  /\ IF mongo.settled = "fulfilled"
       THEN /\ mongo' = [mongo EXCEPT !.conn = mongo.promise]
            /\ Goto(p, [proc[p] EXCEPT !.pc = "done", !.resp = 200, !.out = {mongo.promise}])
       ELSE /\ Goto(p, [proc[p] EXCEPT !.pc = "done", !.resp = 500])
            /\ UNCHANGED mongo
  /\ UNCHANGED <<db, nextJobId, nextApplicationId, nextUserId, now, pendingClose>>

\* dbConnect is called from both request slots in any order
NextDb ==
  \/ \E p \in Procs : DbConnectCall(p)
  \/ ConnectSettles
  \/ \E p \in Procs : DbConnectResume(p)

SpecDb == Init /\ [][NextDb]_vars

Returned(p) == proc[p].kind = "dbConnect" /\ proc[p].pc = "done" /\ proc[p].resp = 200

\* C17: across any number of dbConnect calls, overlapping ones included,
\* mongoose.connect is invoked at most once and every call that returns
\* yields the same connection object
C17_ConnectsOnce ==
  /\ mongo.connects <= 1
  /\ \A p \in Procs : Returned(p) => proc[p].out = {1} /\ mongo.conn = 1

\* two calls overlapped before the connection was made, and both returned it
C17_Witness ==
  /\ Returned(1) /\ Returned(2)
  /\ proc[1].found = {1} /\ proc[2].found = {1}
  /\ mongo.connects = 1 /\ mongo.calls = 2

-----------------------------------------------------------------------------
(* Concurrent PATCH requests of one employer *)

\* job seeker 1 and employer 3
PatchConcTokens == {CreateToken(u) : u \in {v \in RegisteredUsers : v.id \in {1, 3}}}

PatchConcStatuses == {"Reviewed", "Rejected"}

\* a job is posted and applied to with one request at a time; PATCH requests
\* run in both slots and interleave at their awaited database calls
NextPatchConc ==
  \/ AllFree /\ PostJobBegin(1, PatchConcTokens)
  \/ AllFree /\ ApplyBegin(1, PatchConcTokens)
  \/ PostJobStep(1, {""}, {0})
  \/ ApplyStep(1)
  \/ \E p \in Procs : PatchBegin(p, PatchConcTokens)
  \/ \E p \in Procs : PatchStep(p, PatchConcStatuses, {JUndefined})

SpecPatchConc == Init /\ [][NextPatchConc]_vars

\* both slots hold a PATCH of application a that was answered 200
BothPatched(a) ==
  \A p \in Procs :
    proc[p].kind = "patch" /\ proc[p].pc = "done" /\ proc[p].resp = 200 /\ proc[p].app = a

\* C18: once two concurrent PATCH requests of the owning employer on one
\* application have both completed, the application record and the job
\* seeker's appliedJobs entry hold the same status, one of the two requested
C18_ConcurrentPatchesAgree ==
  \A a \in applications : BothPatched(a.id) =>
    /\ a.status \in PatchConcStatuses
    /\ \A i \in MirrorIndices(a.jobSeekerId, a.id) :
         appliedJobs[a.jobSeekerId][i].status = a.status

-----------------------------------------------------------------------------
(* POST /api/jobs with bodies that the schema refuses *)

PostJobStatuses == JobStatuses \cup {"", "Bogus"}

NextPostJob ==
  \/ AllFree /\ PostJobBegin(1, UserTokens \cup {NoToken})
  \/ PostJobStep(1, PostJobStatuses, JobDeadlines)

SpecPostJob == Init /\ [][NextPostJob]_vars

\* the step of POST /api/jobs in slot p that follows the handler's own checks
\* and answers the request
PostJobAnswers(p) == At(p, "postJob", "create") /\ proc'[p].pc = "done"

\* C19: POST /api/jobs with title and description present but location
\* missing, or with a status outside Active/Closed/Draft, is answered 400,
\* never 500, and creates no job
C19_InvalidJobAnswered400 ==
  [][\A p \in Procs :
       (/\ PostJobAnswers(p)
        /\ \/ "location" \notin proc[p].fields
           \/ proc[p].status \notin {"", "Active", "Closed", "Draft"})
         => proc'[p].resp = 400 /\ jobs' = jobs]_vars

-----------------------------------------------------------------------------
(* Apply requests for jobs that take no applications *)

ApplyJobStatuses == {"", "Draft"}

\* jobs are posted Active or as Draft, with or without deadline; time passes
\* between requests
NextApply ==
  \/ AllFree /\ PostJobBegin(1, UserTokens)
  \/ AllFree /\ ApplyBegin(1, UserTokens)
  \/ PostJobStep(1, ApplyJobStatuses, JobDeadlines)
  \/ ApplyStep(1)
  \/ ApplyCloseJob(1)
  \/ Tick

SpecApply == Init /\ [][NextApply]_vars

\* slot p takes the step of its apply request that stands at pc
ApplyActs(p, pc) == At(p, "apply", pc) /\ proc'[p] # proc[p]

Refused400(p) == proc'[p].pc = "done" /\ proc'[p].resp = 400

\* C20: an apply request for a job whose status is not Active, or whose
\* deadline has passed, is answered 400 and creates no application record,
\* adds no appliedJobs entry and leaves the applicant counter; when the
\* deadline has passed the job's stored status becomes Closed
C20_ClosedJobRefusesApply ==
  [][\A p \in Procs : \A j \in jobs : j.id = proc[p].job =>
       /\ (ApplyActs(p, "findJob") /\ j.status # "Active") =>
            Refused400(p) /\ UNCHANGED db
       /\ (/\ ApplyActs(p, "findJob") \/ ApplyActs(p, "closeJob")
           /\ j.status = "Active" /\ j.deadline # 0 /\ now > j.deadline) =>
            /\ UNCHANGED <<applications, appliedJobs>>
            /\ \/ proc'[p].pc = "closeJob" /\ jobs' = jobs
               \/ /\ Refused400(p)
                  /\ jobs' = (jobs \ {j}) \cup {[j EXCEPT !.status = "Closed"]}]_vars

\* an apply for job 1, Active with its deadline passed, was answered 400: the
\* job is Closed, nobody is counted as applicant and no application exists
C20_Witness ==
  /\ proc[1].kind = "apply" /\ proc[1].pc = "done" /\ proc[1].resp = 400
  /\ proc[1].job = 1
  /\ \E j \in jobs : /\ j.id = 1 /\ j.status = "Closed" /\ j.applicants = 0
                     /\ j.deadline # 0 /\ now > j.deadline
  /\ applications = {} /\ \A s \in UserIds : appliedJobs[s] = <<>>

-----------------------------------------------------------------------------
(* An apply whose save of the job seeker fails *)

\* mutant: the error of the save reaches the outer catch
ApplySaveSeekerFails_Mut(p) ==
  /\ At(p, "apply", "saveSeeker")
  /\ Goto(p, [Finish(proc[p], 500) EXCEPT !.at = "saveFailed"])
  /\ UNCHANGED <<db, nextJobId, nextApplicationId, nextUserId, now, pendingClose, mongo>>

\* jobSeekerDoc.save() rejects: the inner catch logs the error and the
\* handler goes on to its 201 answer
ApplySaveSeekerFails(p) ==
  /\ At(p, "apply", "saveSeeker")
  /\ Goto(p, [Finish(proc[p], 201) EXCEPT !.at = "saveFailed"])
  /\ UNCHANGED <<db, nextJobId, nextApplicationId, nextUserId, now, pendingClose, mongo>>

NextApplyFail ==
  \/ AllFree /\ PostJobBegin(1, UserTokens)
  \/ AllFree /\ ApplyBegin(1, UserTokens)
  \/ PostJobStep(1, {""}, {0})
  \/ ApplyStep(1)
  \/ ApplySaveSeekerFails(1)

SpecApplyFail == Init /\ [][NextApplyFail]_vars

SaveFailed(p) == proc[p].kind = "apply" /\ proc[p].pc = "done" /\ proc[p].at = "saveFailed"

\* C21: when saving the appliedJobs entry fails during an apply, the request
\* is still answered 201, the application record and the incremented
\* applicant counter are kept, and no appliedJobs entry exists for the record
C21_FailedSaveStillAnswered201 ==
  \A p \in Procs : SaveFailed(p) =>
    /\ proc[p].resp = 201
    /\ \E a \in applications :
         a.id = proc[p].app /\ a.jobId = proc[p].job /\ a.jobSeekerId = proc[p].tok.uid
    /\ MirrorIndices(proc[p].tok.uid, proc[p].app) = {}
    /\ \A j \in jobs : j.id = proc[p].job =>
         /\ j.applicants >= 1
         /\ j.applicants = Cardinality({a \in applications : a.jobId = j.id})

\* the second application to job 1 lost its appliedJobs entry
C21_Witness ==
  /\ SaveFailed(1) /\ proc[1].resp = 201 /\ proc[1].app = 2
  /\ \E j \in jobs : j.id = proc[1].job /\ j.applicants = 2

-----------------------------------------------------------------------------
(* DELETE /api/my-applications/[applicationId] with a save that can fail *)

\* jobSeeker.save() rejects for a reason of the database: the inner catch
\* answers 500 before Application.findByIdAndDelete is reached
RemoveSaveSeekerFails(p) ==
  /\ At(p, "remove", "saveSeeker")
  /\ Goto(p, [Finish(proc[p], 500) EXCEPT !.at = "saveFailed"])
  /\ UNCHANGED <<db, nextJobId, nextApplicationId, nextUserId, now, pendingClose, mongo>>

\* job seekers 1 and 2 and employer 3
RemoveTokens == {CreateToken(u) : u \in {v \in RegisteredUsers : v.id \in {1, 2, 3}}}

NextRemove ==
  \/ AllFree /\ PostJobBegin(1, RemoveTokens)
  \/ AllFree /\ ApplyBegin(1, RemoveTokens)
  \/ AllFree /\ RemoveBegin(1, RemoveTokens)
  \/ PostJobStep(1, {""}, {0})
  \/ ApplyStep(1)
  \/ RemoveStep(1)
  \/ RemoveSaveSeekerFails(1)

SpecRemove == Init /\ [][NextRemove]_vars

\* slot p takes a step of its remove request
RemoveActs(p) == proc[p].kind = "remove" /\ ~Free(p) /\ proc'[p] # proc[p]

\* C22: DELETE /api/my-applications/[id] removes an application only for the
\* job seeker who owns it (403 and no change otherwise), removes the
\* appliedJobs entry before it deletes the application record, and when it
\* answers 500 the application record and the applicant counter are unchanged
C22_RemoveByOwnerEntryFirst ==
  [][\A p \in Procs : RemoveActs(p) =>
       /\ \A a \in applications : (a.id = proc[p].app /\ a.jobSeekerId # proc[p].tok.uid) =>
            /\ proc'[p].pc = "done" /\ proc'[p].resp = 403
            /\ UNCHANGED db
       /\ \A a \in applications \ applications' :
            /\ a.id = proc[p].app /\ a.jobSeekerId = proc[p].tok.uid
            /\ proc[p].tok.role = "job-seeker"
            /\ MirrorIndices(a.jobSeekerId, a.id) = {}
       /\ (proc'[p].pc = "done" /\ proc'[p].resp = 500) =>
            UNCHANGED <<applications, jobs>>]_vars

\* the save of the job seeker failed: 500, and the application, its
\* appliedJobs entry and the applicant counter are as they were
C22_Witness ==
  /\ proc[1].kind = "remove" /\ proc[1].pc = "done" /\ proc[1].resp = 500
  /\ proc[1].at = "saveFailed"
  /\ \E a \in applications :
       /\ a.id = proc[1].app /\ MirrorIndices(a.jobSeekerId, a.id) # {}
       /\ \E j \in jobs : j.id = a.jobId /\ j.applicants = 1

-----------------------------------------------------------------------------
(* Verification of the email while time passes *)

NextExpiry ==
  \/ AllFree /\ RegisterBegin(1, VerifyUsernames, VerifyEmails, VerifyPasswords, VerifyRoles)
  \/ AllFree /\ VerifyEmailBegin(1, 0..MaxUsers)
  \/ RegisterStep(1)
  \/ VerifyEmailStep(1)
  \/ Tick

SpecExpiry == InitAuth /\ [][NextExpiry]_vars

\* the user documents that hold token as their emailVerificationToken
HoldsToken(token) == {u \in users : token # 0 /\ u.emailVerificationToken = token}

\* the step of the verify-email request in slot p that answers it
VerifyAnswers(p) ==
  proc[p].kind = "verifyEmail" /\ ~Free(p) /\ proc'[p].pc = "done"

\* C23: isEmailVerified becomes true only in a verify-email request whose
\* token is the user's stored non-empty emailVerificationToken and is not
\* expired, and the token is cleared then; an unknown or expired token is
\* answered 400 and changes nothing; isEmailVerified never goes back to false
C23_VerifiedOnlyByFreshToken ==
  [][/\ \A u \in users : \A v \in users' : (u.id = v.id /\ u.isEmailVerified # v.isEmailVerified) =>
          /\ v.isEmailVerified
          /\ v.emailVerificationToken = 0
          /\ \E p \in Procs :
               /\ VerifyAnswers(p) /\ proc'[p].resp = 200
               /\ proc[p].app # 0 /\ proc[p].app = u.emailVerificationToken
               /\ u.emailVerificationTokenExpiry # 0
               /\ now <= u.emailVerificationTokenExpiry
     /\ \A p \in Procs :
          (/\ VerifyAnswers(p)
           /\ \A u \in HoldsToken(proc[p].app) :
                u.emailVerificationTokenExpiry = 0 \/ now > u.emailVerificationTokenExpiry)
            => proc'[p].resp = 400 /\ UNCHANGED db]_vars

\* the user with token 1 is verified, and a second request with token 1 has
\* just been answered 400
C23_Witness ==
  /\ proc[1].kind = "verifyEmail" /\ proc[1].pc = "done" /\ proc[1].resp = 400
  /\ proc[1].app = 1
  /\ \E u \in users : u.id = 1 /\ u.isEmailVerified /\ u.emailVerificationToken = 0

-----------------------------------------------------------------------------
(* PATCH /api/user/settings with username and password changes *)

\* the callers: job seeker 1, employer 3 and a cookie that fails verification
SettingsTokens ==
  {BadToken} \cup {CreateToken(u) : u \in {v \in RegisteredUsers : v.id \in {1, 3}}}

SettingsUsernames == {Absent, Str("Zed "), Str("Bob"), Str("Alice"), Str(" "), NotAString}
SettingsCurrentPasswords == {Absent, Str("pw-alice"), Str("secret2"), NotAString}
SettingsNewPasswords == {Absent, Str("secret1"), Str("short")}
SettingsConfirmPasswords == {Absent, Str("secret1"), Str("secret2")}

SettingsStep(p) ==
  \/ SettingsFindUser(p)
  \/ SettingsFindJobSeeker(p)
  \/ SettingsFindEmployer(p)
  \/ SettingsVerify(p)
  \/ SettingsSave(p)

NextSettings ==
  \/ AllFree /\ SettingsBegin(1, SettingsTokens, SettingsUsernames, SettingsCurrentPasswords,
                              SettingsNewPasswords, SettingsConfirmPasswords)
  \/ SettingsStep(1)

SpecSettings == Init /\ [][NextSettings]_vars

\* the step that answers the settings request of slot p
SettingsAnswers(p) ==
  proc'[p].kind = "settings" /\ proc'[p].pc = "done" /\ proc'[p] # proc[p]

\* the stored document of the caller of the request answered in slot p
Callers(p) ==
  {u \in users : /\ proc'[p].tok.valid /\ u.id = proc'[p].tok.uid
                 /\ (u.role = "job-seeker") = (proc'[p].tok.role = "job-seeker")}

\* the username of the body, trimmed and in lower case, is held by a
\* document other than u
HeldByOther(b, u) ==
  /\ Truthy(b.username) /\ IsString(b.username)
  /\ \E v \in users : v.id # u.id /\ v.username = ToLowerCase(Trim(b.username.s))

\* the body asks for a new password and gives a current password that is a
\* string and is not the password of u
WrongCurrent(b, u) ==
  /\ Truthy(b.newPassword)
  /\ Truthy(b.currentPassword) /\ IsString(b.currentPassword)
  /\ u.passwordHash # HashPassword(b.currentPassword.s)

\* the parts of C24 on what is written and on the cookie
SettingsAllOrNothing(p) ==
  /\ (proc[p].kind = "settings" /\ ~Free(p) /\ ~SettingsAnswers(p)) => UNCHANGED users
  /\ SettingsAnswers(p) =>
       /\ proc'[p].resp # 200 => UNCHANGED users
       /\ \A u \in Callers(p) : \A v \in users' : v.id = u.id =>
            /\ (proc'[p].out # {}) = (v.username # u.username)
            /\ proc'[p].out # {} => proc'[p].out = {CreateToken(v)}
            /\ HeldByOther(proc'[p].body, u) => proc'[p].resp = 409

\* C24: an error answer of PATCH /api/user/settings changes neither the
\* username nor the password hash; a username held by another document gives
\* 409, a wrong current password gives 403, and a new auth_token cookie with
\* the new username is issued exactly when the username changed
C24_SettingsAllOrNothing ==
  [][\A p \in Procs :
       /\ SettingsAllOrNothing(p)
       /\ SettingsAnswers(p) =>
            \A u \in Callers(p) :
              (WrongCurrent(proc'[p].body, u) /\ ~HeldByOther(proc'[p].body, u))
                => proc'[p].resp = 403]_vars

\* C24 (amended): as C24, but a wrong current password gives 403 only when
\* the username of the body is acceptable and the new password passes its
\* checks; otherwise the answer is the 400 or 409 of the earlier check
C24_SettingsAllOrNothingInOrder ==
  [][\A p \in Procs :
       /\ SettingsAllOrNothing(p)
       /\ SettingsAnswers(p) =>
            \A u \in Callers(p) :
              LET b == proc'[p].body IN
              (WrongCurrent(b, u) /\ ~HeldByOther(b, u)) =>
                proc'[p].resp =
                  IF /\ Truthy(b.username) /\ IsString(b.username)
                     /\ ToLowerCase(Trim(b.username.s)) = "" THEN 400
                  ELSE IF ~IsString(b.newPassword) \/ TooShort(b.newPassword) THEN 400
                  ELSE IF Truthy(b.confirmPassword) /\ b.confirmPassword # b.newPassword
                    THEN 400
                  ELSE 403]_vars

\* alice asked for the username zed and a new password with a wrong current
\* password: 403, and she is still alice with her password
C24_Witness ==
  /\ proc[1].kind = "settings" /\ proc[1].pc = "done" /\ proc[1].resp = 403
  /\ proc[1].body.username = Str("Zed ") /\ proc[1].body.newPassword = Str("secret1")
  /\ proc[1].tok.uid = 1 /\ proc[1].out = {}
  /\ \E u \in users : u.id = 1 /\ u.username = "alice"
                      /\ u.passwordHash = HashPassword("pw-alice")

-----------------------------------------------------------------------------
(* The applicants counter under interleaved apply and remove requests *)

\* the application records that refer to job j
ApplicationsOf(j) == {a \in applications : a.jobId = j}

\* C25: once the requests have completed, the applicants counter of every job
\* equals the number of application records that refer to the job and is not
\* negative, whatever the interleaving of apply and remove requests
C25_ApplicantsCounterExact ==
  AllFree =>
    \A j \in jobs :
      j.applicants = Cardinality(ApplicationsOf(j.id)) /\ j.applicants >= 0

-----------------------------------------------------------------------------
(* Registrations and username changes served at the same time *)

NamesUsernames == {Str("Zed"), Str("Alice")}
NamesEmails == {Str("Alice@Mail "), Str("carol@mail")}
NamesPasswords == {Str("secret1")}
NamesRoles == {"job-seeker", "employer"}

NextNames ==
  \E p \in Procs :
    \/ RegisterBegin(p, NamesUsernames, NamesEmails, NamesPasswords, NamesRoles)
    \/ RegisterStep(p)
    \/ SettingsBegin(p, {CreateToken(u) : u \in users}, {Str("Zed ")},
                     {Absent}, {Absent}, {Absent})
    \/ SettingsFindUser(p)
    \/ SettingsFindJobSeeker(p)
    \/ SettingsFindEmployer(p)
    \/ SettingsSave(p)

SpecNames == InitAuth /\ [][NextNames]_vars

\* C26: no username is held by both a job-seeker document and an employer
\* document, in every state and whatever the interleaving of registrations
\* and username changes
C26_UsernameInOneCollection ==
  \A u \in JobSeekers : \A e \in Employers : u.username # e.username

-----------------------------------------------------------------------------
(* Apply requests served at the same time as the deletion of the job *)

NextApplyDelete ==
  \E p \in Procs :
    \/ PostJobBegin(p, ConcTokens)
    \/ ApplyBegin(p, ConcTokens)
    \/ DeleteJobBegin(p, ConcTokens)
    \/ PostJobStep(p, {""}, {0})
    \/ ApplyStep(p)
    \/ DeleteJobStep(p)

SpecApplyDelete == Init /\ [][NextApplyDelete]_vars

\* C27: once an apply request and the DELETE of its job by the owning
\* employer have both completed, no application record and no appliedJobs
\* entry refers to a job that is gone
C27_NothingRefersToDeletedJob ==
  AllFree =>
    /\ \A a \in applications : \E j \in jobs : j.id = a.jobId
    /\ \A s \in DOMAIN appliedJobs : \A i \in DOMAIN appliedJobs[s] :
         \E j \in jobs : j.id = appliedJobs[s][i].jobId

-----------------------------------------------------------------------------
(* A browser between the employer login page and the employer dashboard *)

\* verifyToken(token) for the cookie values of the model: the signed token
\* is the one of employer 3, any other text fails jwt.verify
VerifyToken(cookie) ==
  IF ~Truthy(cookie) THEN NoToken
  ELSE IF cookie = Str("jwt")
    THEN CreateToken(CHOOSE u \in RegisteredUsers : u.id = 3)
  ELSE BadToken

\* the pathname of a URL the browser is sent to
UrlPath(url) ==
  CASE url = "/employer" -> <<"/employer">>
    [] url = "/job-seeker" -> <<"/job-seeker">>
    [] url = "/auth/login/employer" -> <<"/auth", "/login", "/employer">>
    [] url = "/auth/login/job-seeker" -> <<"/auth", "/login", "/job-seeker">>

EmployerDashboard == <<"/employer">>
EmployerLogin == <<"/auth", "/login", "/employer">>

\* the browser asks for the page of its location: the middleware lets the
\* request pass and the page is rendered, or it redirects and the browser
\* follows
BrowserNavigate(p) ==
  /\ At(p, "browser", "navigate")
  /\ LET to == MiddlewareResponse(proc[p].path, proc[p].cookie) IN
     IF to = "" THEN Goto(p, [proc[p] EXCEPT !.pc = "page"])
     ELSE Goto(p, [proc[p] EXCEPT !.path = UrlPath(to), !.redirect = to])
  /\ UNCHANGED <<db, nextJobId, nextApplicationId, nextUserId, now, pendingClose, mongo>>

\* useEffect of EmployerDashboard, and its setInterval: fetchEmployerJobs
\* sends GET /api/jobs/employer with the cookies of the browser
BrowserEffect(p) ==
  /\ At(p, "browser", "page")
  /\ proc[p].path = EmployerDashboard
  /\ Goto(p, [proc[p] EXCEPT !.pc = "fetch", !.resp = 0])
  /\ UNCHANGED <<db, nextJobId, nextApplicationId, nextUserId, now, pendingClose, mongo>>

\* GET /api/jobs/employer answers 401 or 403 before it reads anything, and
\* fetchEmployerJobs then sets window.location.href to the employer login
\* page; with a passing token the jobs of the employer (none here) are
\* answered with 200 and the page stays
BrowserFetch(p) ==
  /\ At(p, "browser", "fetch")
  /\ LET code == AuthCheck(VerifyToken(proc[p].cookie), "employer") IN
     IF code \in {401, 403}
       THEN Goto(p, [proc[p] EXCEPT !.pc = "navigate", !.path = EmployerLogin,
                                    !.resp = code, !.redirect = ""])
       ELSE Goto(p, [proc[p] EXCEPT !.pc = "page", !.resp = 200])
  /\ UNCHANGED <<db, nextJobId, nextApplicationId, nextUserId, now, pendingClose, mongo>>

\* time passes; a cookie that was set with maxAge is dropped by the browser
\* when its time is over (deadline 0: a cookie without Max-Age or Expires)
BrowserTick(p) ==
  /\ proc[p].kind = "browser"
  /\ now < MaxTime
  /\ now' = now + 1
  /\ IF proc[p].deadline # 0 /\ now' >= proc[p].deadline
       THEN Goto(p, [proc[p] EXCEPT !.cookie = Absent, !.deadline = 0])
       ELSE UNCHANGED proc
  /\ UNCHANGED <<db, nextJobId, nextApplicationId, nextUserId, pendingClose, mongo>>

\* a browser with any cookie of any lifetime asks for the employer dashboard
\* or the employer login page
InitBrowser ==
  /\ users = RegisteredUsers
  /\ appliedJobs = [u \in UserIds |-> <<>>]
  /\ docVersion = [u \in UserIds |-> 0]
  /\ jobs = {}
  /\ applications = {}
  /\ nextJobId = 1
  /\ nextApplicationId = 1
  /\ nextUserId = MaxUsers + 1
  /\ now = 0
  /\ pendingClose = {}
  /\ mongo = NotConnected
  /\ \E pathname \in {EmployerDashboard, EmployerLogin}, token \in CookieValues,
        maxAge \in 0..MaxTime :
       proc = [p \in Procs |->
                 IF p = 1 THEN [Idle EXCEPT !.kind = "browser", !.pc = "navigate",
                                            !.path = pathname, !.cookie = token,
                                            !.deadline = IF token = Absent THEN 0
                                                         ELSE maxAge]
                 ELSE Idle]

NextBrowser ==
  \/ BrowserNavigate(1)
  \/ BrowserEffect(1)
  \/ BrowserFetch(1)
  \/ BrowserTick(1)

SpecBrowser == InitBrowser /\ [][NextBrowser]_vars

\* the server answers every request, the scripts of a rendered page run, and
\* time passes
SpecBrowserLive ==
  /\ SpecBrowser
  /\ WF_vars(BrowserNavigate(1))
  /\ WF_vars(BrowserEffect(1))
  /\ WF_vars(BrowserFetch(1))
  /\ WF_vars(BrowserTick(1))

\* the browser holds an auth_token cookie that fails verification
HoldsFailingCookie ==
  /\ proc[1].kind = "browser"
  /\ Truthy(proc[1].cookie) /\ ~VerifyToken(proc[1].cookie).valid

\* the login page is rendered in the browser
LoginPageShown ==
  /\ proc[1].kind = "browser" /\ proc[1].pc = "page"
  /\ proc[1].path = EmployerLogin

-----------------------------------------------------------------------------
(* POST /api/auth/reset-password {token, newPassword} *)

\* a token of the body that is no text but the query object {$eq: ''}, which
\* JobSeeker.findOne({passwordResetToken: token}) hands to the database
EmptyTokenQuery == 0 - 1

\* the documents of a collection that findOne({passwordResetToken: token})
\* matches
ByResetToken(collection, token) ==
  {u \in collection :
     IF token = EmptyTokenQuery THEN u.passwordResetToken = 0
     ELSE u.passwordResetToken = token}

\* dbConnect before the try block; then !token || !newPassword and the
\* length of the new password; 0 stands for a missing or empty token
ResetBegin(p, tokens, newPasswords) ==
  /\ Free(p)
  /\ \E token \in tokens, newPassword \in newPasswords, connected \in BOOLEAN :
       LET r == [Idle EXCEPT !.kind = "resetPassword", !.app = token,
                             !.body = [NoBody EXCEPT !.newPassword = newPassword]] IN
       IF ~connected
         THEN Goto(p, [Finish(r, 500) EXCEPT !.body = r.body, !.at = "dbConnect"])
       ELSE IF token = 0 \/ ~Truthy(newPassword) THEN RespondAuth(p, r, 400, {})
       ELSE IF TooShort(newPassword) THEN RespondAuth(p, r, 400, {})
       ELSE Goto(p, [r EXCEPT !.pc = "findJobSeeker"])
  /\ UNCHANGED <<db, nextJobId, nextApplicationId, nextUserId, now, pendingClose, mongo>>

\* JobSeeker.findOne({passwordResetToken: token})
ResetFindJobSeeker(p) ==
  /\ At(p, "resetPassword", "findJobSeeker")
  /\ LET found == ByResetToken(JobSeekers, proc[p].app) IN
     IF found # {}
       THEN \E u \in found : Goto(p, [proc[p] EXCEPT !.pc = "check", !.found = {u}])
       ELSE Goto(p, [proc[p] EXCEPT !.pc = "findEmployer"])
  /\ UNCHANGED <<db, nextJobId, nextApplicationId, nextUserId, now, pendingClose, mongo>>

\* Employer.findOne({passwordResetToken: token}); no user is answered 400
ResetFindEmployer(p) ==
  /\ At(p, "resetPassword", "findEmployer")
  /\ LET found == ByResetToken(Employers, proc[p].app) IN
     IF found # {}
       THEN \E u \in found : Goto(p, [proc[p] EXCEPT !.pc = "check", !.found = {u}])
       ELSE RespondAuth(p, proc[p], 400, {})
  /\ UNCHANGED <<db, nextJobId, nextApplicationId, nextUserId, now, pendingClose, mongo>>

\* isTokenExpired(user.passwordResetTokenExpiry) is answered 400, an
\* unverified email 403; then hashPassword, which throws for a password that
\* is not a string (500), and user.save() with the token cleared: 200
ResetCheck(p) ==
  /\ At(p, "resetPassword", "check")
  /\ LET r == proc[p]
         user == TheDoc(r.found) IN
     IF IsTokenExpired(user.passwordResetTokenExpiry, now)
       THEN RespondAuth(p, r, 400, {}) /\ UNCHANGED users
     ELSE IF ~user.isEmailVerified
       THEN RespondAuth(p, r, 403, {}) /\ UNCHANGED users
     ELSE IF ~IsString(r.body.newPassword) \/ FindById(users, user.id) = {}
       THEN RespondAuth(p, r, 500, {}) /\ UNCHANGED users
     ELSE /\ users' = {IF u.id = user.id
                         THEN [u EXCEPT !.passwordHash = HashPassword(r.body.newPassword.s),
                                        !.passwordResetToken = 0,
                                        !.passwordResetTokenExpiry = 0]
                         ELSE u : u \in users}
          /\ RespondAuth(p, r, 200, {})
  /\ UNCHANGED <<appliedJobs, docVersion, jobs, applications, nextJobId,
                 nextApplicationId, nextUserId, now, pendingClose, mongo>>

ResetStep(p) ==
  \/ ResetFindJobSeeker(p)
  \/ ResetFindEmployer(p)
  \/ ResetCheck(p)

ResetTokens == {EmptyTokenQuery} \cup (0..MaxUsers)
ResetNewPasswords == {Str("secret2"), Str("short"), Absent}
ResetUsernames == {Str("Alice"), Str("carol")}

\* the four requests of the password reset, one at a time, while time passes
NextReset ==
  \/ AllFree /\ RegisterBegin(1, VerifyUsernames, VerifyEmails, VerifyPasswords, VerifyRoles)
  \/ AllFree /\ VerifyEmailBegin(1, 0..MaxUsers)
  \/ AllFree /\ ForgotBegin(1, ResetUsernames)
  \/ AllFree /\ ResetBegin(1, ResetTokens, ResetNewPasswords)
  \/ RegisterStep(1)
  \/ VerifyEmailStep(1)
  \/ ForgotStep(1)
  \/ ResetStep(1)
  \/ Tick

SpecReset == InitAuth /\ [][NextReset]_vars

\* every request is answered, and a client goes on sending requests of each
\* of the four kinds
SpecResetLive ==
  /\ SpecReset
  /\ WF_vars(RegisterStep(1) \/ VerifyEmailStep(1) \/ ForgotStep(1) \/ ResetStep(1))
  /\ SF_vars(AllFree /\ RegisterBegin(1, VerifyUsernames, VerifyEmails, VerifyPasswords,
                                      VerifyRoles))
  /\ SF_vars(AllFree /\ VerifyEmailBegin(1, 0..MaxUsers))
  /\ SF_vars(AllFree /\ ForgotBegin(1, ResetUsernames))
  /\ SF_vars(AllFree /\ ResetBegin(1, ResetTokens, ResetNewPasswords))

\* a user holds a reset token that is not empty and has not expired
ResetTokenHeld ==
  \E u \in users : /\ u.passwordResetToken # 0
                   /\ ~IsTokenExpired(u.passwordResetTokenExpiry, now)

\* a reset-password request was answered 200
ResetCompleted ==
  proc[1].kind = "resetPassword" /\ proc[1].pc = "done" /\ proc[1].resp = 200

\* no state of SpecReset has a reset token or a completed reset
ResetNeverCompletes == ~ResetTokenHeld /\ ~ResetCompleted

\* C29: the token-based password reset can be completed: the requests of the
\* API (register, verify-email, forgot-password, reset-password) lead to a
\* state in which a user holds a non-empty unexpired passwordResetToken, and
\* to one in which a reset-password request was answered 200
C29_ResetCanComplete == <>ResetTokenHeld /\ <>ResetCompleted

=============================================================================
